---- MODULE Spec2Model ----
(***************************************************************************)
(* Host-side driver of the EGM-4 gas monitor: the serial read loop and its *)
(* frame splitter (EGM4Serial.process_loop), the record decoder            *)
(* (EGM4Serial._parse_data) and the monitor screen's message handling.     *)
(*                                                                         *)
(* Text is a sequence of one-character strings. A byte is written as the   *)
(* ASCII character it encodes; the two non-ASCII bytes of the modelled     *)
(* alphabet are "xC3" and "xA9" (the UTF-8 encoding of U+00E9, "e'").      *)
(* A number is a fraction [num, den] with den a power of ten: Python's     *)
(* int is den = 1, and float(x)/10.0 of a decimal literal is exact here    *)
(* exactly where IEEE division rounds it to the nearest double.            *)
(***************************************************************************)
EXTENDS Integers, Sequences, FiniteSets, TLC

(***************************************************************************)
(* Python built-ins used by the code                                       *)
(***************************************************************************)

CR == "\r"

DigitChars == <<"0", "1", "2", "3", "4", "5", "6", "7", "8", "9">>

Digit == {DigitChars[i] : i \in 1..Len(DigitChars)}

DigitVal(c) == (CHOOSE i \in 1..Len(DigitChars) : DigitChars[i] = c) - 1

\* The characters str.strip() removes, within the modelled alphabet.
Whitespace == {" ", "\n", "\t"}

Num(n, d) == [num |-> n, den |-> d]

NumEq(a, b) == a.num * b.den = b.num * a.den

\* Python's s[a:b]: negative indices count from the end, both are clamped.
Clamp(i, n) ==
    IF i < 0 THEN (IF i + n < 0 THEN 0 ELSE i + n)
    ELSE (IF i > n THEN n ELSE i)

Slice(s, a, b) ==
    LET lo == Clamp(a, Len(s))
        hi == Clamp(b, Len(s))
    IN  IF lo < hi THEN SubSeq(s, lo + 1, hi) ELSE <<>>

\* Python's s[a:] with a negative a.
SliceFrom(s, a) == Slice(s, a, Len(s))

RECURSIVE LStrip(_)
LStrip(s) ==
    IF s # <<>> /\ Head(s) \in Whitespace THEN LStrip(Tail(s)) ELSE s

RECURSIVE RStrip(_)
RStrip(s) ==
    IF s # <<>> /\ s[Len(s)] \in Whitespace
    THEN RStrip(SubSeq(s, 1, Len(s) - 1))
    ELSE s

\* str.strip()
Strip(s) == RStrip(LStrip(s))

\* str.replace(c, '')
RECURSIVE RemoveChar(_, _)
RemoveChar(s, c) ==
    IF s = <<>> THEN <<>>
    ELSE IF Head(s) = c THEN RemoveChar(Tail(s), c)
    ELSE <<Head(s)>> \o RemoveChar(Tail(s), c)

\* Index of the first c in s, 0 when there is none (c in s, s.find(c)).
RECURSIVE FindChar(_, _, _)
FindChar(s, c, i) ==
    IF i > Len(s) THEN 0
    ELSE IF s[i] = c THEN i
    ELSE FindChar(s, c, i + 1)

Contains(s, c) == FindChar(s, c, 1) # 0

\* str.split(c): the segments between the occurrences of c.
RECURSIVE SplitAll(_, _)
SplitAll(s, c) ==
    LET k == FindChar(s, c, 1)
    IN  IF k = 0 THEN <<s>>
        ELSE <<SubSeq(s, 1, k - 1)>> \o SplitAll(SubSeq(s, k + 1, Len(s)), c)

RECURSIVE DigitsVal(_, _)
DigitsVal(s, acc) ==
    IF s = <<>> THEN acc
    ELSE DigitsVal(Tail(s), acc * 10 + DigitVal(Head(s)))

AllDigits(s) == \A i \in 1..Len(s) : s[i] \in Digit

RECURSIVE Pow10(_)
Pow10(n) == IF n = 0 THEN 1 ELSE 10 * Pow10(n - 1)

Signed(t) == t # <<>> /\ t[1] \in {"+", "-"}

Negative(t) == t # <<>> /\ t[1] = "-"

Unsigned(t) == IF Signed(t) THEN Tail(t) ELSE t

\* The part of a decimal literal before its point, and the part after it.
IntPart(body) ==
    IF Contains(body, ".") THEN SubSeq(body, 1, FindChar(body, ".", 1) - 1)
    ELSE body

FracPart(body) ==
    IF Contains(body, ".")
    THEN SubSeq(body, FindChar(body, ".", 1) + 1, Len(body))
    ELSE <<>>

\* The value of a literal of digits ip, then a point and digits fp, or the
\* failure (ValueError) when there is no digit or something else than digits.
Literal(neg, ip, fp) ==
    IF ip \o fp # <<>> /\ AllDigits(ip) /\ AllDigits(fp)
    THEN [ok |-> TRUE,
          val |-> Num(IF neg THEN -DigitsVal(ip \o fp, 0) ELSE DigitsVal(ip \o fp, 0),
                      Pow10(Len(fp)))]
    ELSE [ok |-> FALSE, val |-> Num(0, 1)]

IntOfStripped(t) == Literal(Negative(t), Unsigned(t), <<>>)

FloatOfStripped(t) ==
    Literal(Negative(t), IntPart(Unsigned(t)), FracPart(Unsigned(t)))

\* int(s): surrounding whitespace, one optional sign, then decimal digits.
\* (Underscores and non-ASCII digits are outside the modelled alphabet.)
PyInt(s) == IntOfStripped(Strip(s))

\* float(s): surrounding whitespace, one optional sign, digits with at most
\* one decimal point and at least one digit. (Exponents, inf and nan need
\* letters that are outside the modelled alphabet.)
PyFloat(s) == FloatOfStripped(Strip(s))

\* data[k] = v
Put(d, k, v) == (k :> v) @@ d

Has(d, k) == k \in DOMAIN d

EmptyDict == [k \in {} |-> 0]

(***************************************************************************)
(* Field registry and record decoder: EGM4Serial._parse_data               *)
(***************************************************************************)

\* len(line) >= 20: the shortest frame decoded as a measurement.
MinHeaderLen == 20

\* len(line) >= 25 and len(line) >= 30: the H2O and RHT extensions.
MinH2OLen == 25

MinRhtLen == 30

SrcProbeType == 8

Fld(a, b, k, f) == [start |-> a, end |-> b, key |-> k, func |-> f]

GenericLayout ==
    << Fld(30, 34, "aux1", "int"), Fld(34, 38, "aux2", "int"),
       Fld(38, 42, "aux3", "int"), Fld(42, 46, "aux4", "int"),
       Fld(46, 50, "aux5", "int") >>

HtrLayout ==
    << Fld(30, 34, "par", "int"), Fld(34, 38, "rh", "f10"),
       Fld(38, 42, "temp", "f10") >>

\* Mutant: a registry without the 'default' entry, a code it does not hold
\* has no fields.
ProbeDefinitionsNoDefault(pt) ==
    CASE pt = 0 -> GenericLayout
      [] pt = 1 -> HtrLayout \o << Fld(46, 50, "aux5", "int") >>
      [] pt = 2 -> HtrLayout
      [] pt = 3 -> HtrLayout
      [] pt = 7 -> HtrLayout \o
                   << Fld(42, 46, "rh_out", "f10"), Fld(46, 50, "flow", "f10"),
                      Fld(50, 54, "gs", "int") >>
      [] pt = 8 -> << >>
      [] pt = 11 -> << Fld(30, 34, "par", "int"), Fld(34, 38, "evap", "int"),
                       Fld(38, 42, "temp", "f10"), Fld(42, 46, "dc", "int"),
                       Fld(46, 50, "flow", "f10"), Fld(50, 54, "sr_mag", "f100"),
                       Fld(54, 55, "flow_mult", "int"),
                       Fld(56, 58, "sr_sign", "str") >>
      [] OTHER -> << >>

\* PROBE_DEFINITIONS.get(probe_type, PROBE_DEFINITIONS['default'])
ProbeDefinitions(pt) ==
    CASE pt = 0 -> GenericLayout
      [] pt = 1 -> HtrLayout \o << Fld(46, 50, "aux5", "int") >>
      [] pt = 2 -> HtrLayout
      [] pt = 3 -> HtrLayout
      [] pt = 7 -> HtrLayout \o
                   << Fld(42, 46, "rh_out", "f10"), Fld(46, 50, "flow", "f10"),
                      Fld(50, 54, "gs", "int") >>
      [] pt = 8 -> << >>
      [] pt = 11 -> << Fld(30, 34, "par", "int"), Fld(34, 38, "evap", "int"),
                       Fld(38, 42, "temp", "f10"), Fld(42, 46, "dc", "int"),
                       Fld(46, 50, "flow", "f10"), Fld(50, 54, "sr_mag", "f100"),
                       Fld(54, 55, "flow_mult", "int"),
                       Fld(56, 58, "sr_sign", "str") >>
      [] OTHER -> GenericLayout

\* The conversion functions int, float, f10 (float(x)/10.0), f100
\* (float(x)/100.0) and str.
DividedBy(r, k) == [ok |-> r.ok, val |-> Num(r.val.num, r.val.den * k)]

Convert(func, s) ==
    CASE func = "int"   -> PyInt(s)
      [] func = "f10"   -> DividedBy(PyFloat(s), 10)
      [] func = "f100"  -> DividedBy(PyFloat(s), 100)
      [] func = "float" -> PyFloat(s)
      [] OTHER          -> [ok |-> TRUE, val |-> s]

Zero == Num(0, 1)

ValueOrZero(r) == IF r.ok THEN r.val ELSE Zero

\* try: data[key] = func(text) / except: data[key] = 0
PutOrZero(data, key, func, text) ==
    Put(data, key, ValueOrZero(Convert(func, text)))

\* The fixed header, each field read by int() with no handler of its own:
\* the first field that fails raises out of the try block's body.
HeaderFields ==
    << Fld(1, 3, "plot", "int"), Fld(3, 7, "record", "int"),
       Fld(7, 9, "day", "int"), Fld(9, 11, "month", "int"),
       Fld(11, 13, "hour", "int"), Fld(13, 15, "minute", "int"),
       Fld(15, 20, "co2_ppm", "int") >>

HeaderValue(line, f) == PyInt(Slice(line, f.start, f.end))

RECURSIVE ParseHeader(_, _, _)
ParseHeader(line, data, i) ==
    IF i > Len(HeaderFields) THEN [exc |-> FALSE, data |-> data]
    ELSE IF HeaderValue(line, HeaderFields[i]).ok
         THEN ParseHeader(line,
                          Put(data, HeaderFields[i].key,
                              HeaderValue(line, HeaderFields[i]).val),
                          i + 1)
         ELSE [exc |-> TRUE, data |-> data]

\* The optional H2O and RHT fields, each with its own handler.
ParseH2O(line, data) ==
    IF Len(line) >= MinH2OLen
    THEN PutOrZero(data, "h2o", "int", Slice(line, 20, 25))
    ELSE data

ParseRht(line, data) ==
    IF Len(line) >= MinRhtLen
    THEN PutOrZero(data, "rht", "f10", Slice(line, 25, 30))
    ELSE data

ParseExtensions(line, data) == ParseRht(line, ParseH2O(line, data))

\* probe_type = int(line[-2:]), 0 when that fails.
ProbeTypeOf(line) ==
    LET r == PyInt(SliceFrom(line, -2))
    IN  IF r.ok THEN r.val.num ELSE 0

\* for start, end, key, func in defs: the field is read when the line reaches
\* its end; sr_sign is skipped.
ParseProbeField(line, data, f) ==
    IF Len(line) >= f.end /\ f.key # "sr_sign"
    THEN PutOrZero(data, f.key, f.func, Slice(line, f.start, f.end))
    ELSE data

RECURSIVE ParseProbeFields(_, _, _, _)
ParseProbeFields(line, data, defs, i) ==
    IF i > Len(defs) THEN data
    ELSE ParseProbeFields(line, ParseProbeField(line, data, defs[i]), defs, i + 1)

\* Mutant: the four fields read at the positions the docstring gives from
\* the start of the line, instead of from its end.
ParseSrcFieldsForward(line, data) ==
    PutOrZero(
      PutOrZero(
        PutOrZero(
          PutOrZero(data, "atmp", "int", Slice(line, 58, 61)),
          "sr", "f100", Slice(line, 50, 54)),
        "dt", "int", Slice(line, 46, 50)),
      "dc", "int", Slice(line, 42, 46))

\* if probe_type == 8: the four windows counted from the end of the line,
\* read in the order atmp, sr, dt, dc.
ParseSrcFields(line, data) ==
    PutOrZero(
      PutOrZero(
        PutOrZero(
          PutOrZero(data, "atmp", "int", Slice(line, -6, -2)),
          "sr", "f100", Slice(line, -14, -10)),
        "dt", "int", Slice(line, -18, -14)),
      "dc", "int", Slice(line, -22, -18))

DaysInMonth(m, leap) ==
    IF m = 2 THEN (IF leap THEN 29 ELSE 28)
    ELSE IF m \in {4, 6, 9, 11} THEN 30 ELSE 31

\* datetime(year=now().year, month, day, hour, minute), None when it raises.
\* The protocol carries no year: leap says whether the current year is one.
DeviceTimestamp(data, leap) ==
    LET mo == data["month"].num
        dy == data["day"].num
        hr == data["hour"].num
        mi == data["minute"].num
    IN  IF /\ mo \in 1..12
           /\ dy >= 1 /\ dy <= DaysInMonth(mo, leap)
           /\ hr \in 0..23
           /\ mi \in 0..59
        THEN <<mo, dy, hr, mi>>
        ELSE <<>>

\* The probe-specific fields of the layout of probe type pt, then the
\* end-anchored fields when pt is the soil respiration chamber's.
ParseProbe(line, data, pt) ==
    IF pt = SrcProbeType
    THEN ParseSrcFields(line, ParseProbeFields(line, data, ProbeDefinitions(pt), 1))
    ELSE ParseProbeFields(line, data, ProbeDefinitions(pt), 1)

WithProbeType(line, data, pt) ==
    ParseProbe(line, Put(data, "probe_type", Num(pt, 1)), pt)

WithTimestamp(data, leap) ==
    Put(data, "device_timestamp", DeviceTimestamp(data, leap))

\* What follows the header: nothing when a header field raised.
AfterHeader(line, leap, h) ==
    IF h.exc THEN h
    ELSE [exc |-> FALSE,
          data |-> WithTimestamp(
                     WithProbeType(line, ParseExtensions(line, h.data),
                                   ProbeTypeOf(line)),
                     leap)]

\* The branch for an R or M line of at least 20 characters.
ParseMeasurement(line, leap) ==
    AfterHeader(line, leap, ParseHeader(line, Put(EmptyDict, "type", line[1]), 1))

\* parts[1] of a comma-separated payload, with '+' removed and stripped,
\* converted by float(); zero when float() raises ValueError.
PayloadOf(data, key, parts) ==
    IF Len(parts) >= 2
    THEN PutOrZero(data, key, "float", Strip(RemoveChar(parts[2], "+")))
    ELSE data

PayloadValue(data, key, line) == PayloadOf(data, key, SplitAll(line, ","))

\* B: co2_ppm = float(parts[2]) when there are three parts; left out when
\* float() raises.
BannerOf(parts) ==
    IF Len(parts) >= 3 /\ PyFloat(parts[3]).ok
    THEN Put(Put(EmptyDict, "type", "B"), "co2_ppm", PyFloat(parts[3]).val)
    ELSE Put(EmptyDict, "type", "B")

ParseBanner(line) == BannerOf(SplitAll(line, ","))

ParseWarmup(line) ==
    LET d == Put(EmptyDict, "type", "W")
    IN  IF Contains(line, ",") THEN PayloadValue(d, "warmup_temp", line) ELSE d

\* Mutant: every Z record taken for a zero check.
ParseZeroAlways(line) ==
    PayloadValue(Put(EmptyDict, "type", "Z"), "zero_countdown", line)

ParseZero(line) ==
    IF Contains(line, ",")
    THEN PayloadValue(Put(EmptyDict, "type", "Z"), "zero_countdown", line)
    ELSE Put(EmptyDict, "type", "Z_END")

ParseUnknown(line) == Put(Put(EmptyDict, "type", "unknown"), "raw", line)

\* Mutant: the measurement branch taken without the check of the length.
TryParseAnyLength(line, leap) ==
    IF Len(line) > 0 /\ line[1] \in {"R", "M"}
    THEN ParseMeasurement(line, leap)
    ELSE [exc |-> FALSE,
          data |-> IF Len(line) > 0 /\ line[1] = "B" THEN ParseBanner(line)
                   ELSE IF Len(line) > 0 /\ line[1] = "W" THEN ParseWarmup(line)
                   ELSE IF Len(line) > 0 /\ line[1] = "Z" THEN ParseZero(line)
                   ELSE ParseUnknown(line)]

\* The body of _parse_data's try block: exc says an exception left it, data
\* is the dict as filled so far.
TryParse(line, leap) ==
    IF Len(line) >= MinHeaderLen /\ line[1] \in {"R", "M"}
    THEN ParseMeasurement(line, leap)
    ELSE [exc |-> FALSE,
          data |-> IF Len(line) > 0 /\ line[1] = "B" THEN ParseBanner(line)
                   ELSE IF Len(line) > 0 /\ line[1] = "W" THEN ParseWarmup(line)
                   ELSE IF Len(line) > 0 /\ line[1] = "Z" THEN ParseZero(line)
                   ELSE ParseUnknown(line)]

\* Mutant: no except clause, what the body raised reaches the caller.
Uncaught(line, r) == r

\* _parse_data: except Exception turns whatever the body raised into the
\* error flag and the raw line on the dict built so far. exc in the outcome
\* says whether an exception reaches the caller.
Caught(line, r) ==
    IF r.exc
    THEN [exc |-> FALSE,
          data |-> Put(Put(r.data, "error", "ValueError"), "raw", line)]
    ELSE r

ParseData(line, leap) == Caught(line, TryParse(line, leap))

(***************************************************************************)
(* Frame splitter and read loop: EGM4Serial.process_loop                   *)
(***************************************************************************)

LeadByte == "xC3"

ContByte == "xA9"

\* The character the two bytes xC3 xA9 encode.
EAcute == "U+E9"

IsAscii(b) == b \notin {LeadByte, ContByte}

\* chunk.decode('utf-8', errors='ignore'): a lead byte followed by its
\* continuation byte is one character; a lead byte with no continuation
\* (another byte follows, or the chunk ends) and a continuation byte with no
\* lead are dropped.
RECURSIVE Utf8DecodeIgnore(_)
Utf8DecodeIgnore(b) ==
    IF b = <<>> THEN <<>>
    ELSE IF IsAscii(Head(b)) THEN <<Head(b)>> \o Utf8DecodeIgnore(Tail(b))
    ELSE IF Head(b) = LeadByte /\ Len(b) >= 2 /\ b[2] = ContByte
         THEN <<EAcute>> \o Utf8DecodeIgnore(SubSeq(b, 3, Len(b)))
    ELSE Utf8DecodeIgnore(Tail(b))

\* record, self.buffer = self.buffer.split('\r', 1), for a buffer that
\* holds a carriage return.
SplitFirst(buf) ==
    LET k == FindChar(buf, CR, 1)
    IN  [record |-> SubSeq(buf, 1, k - 1), rest |-> SubSeq(buf, k + 1, Len(buf))]

\* while '\r' in self.buffer: split off the first record, strip it, and
\* when it is not empty parse it and hand it to data_callback. out collects
\* the callback's calls; exc says _parse_data raised, which leaves the loop
\* with the buffer already advanced past the record.
RECURSIVE DrainBuffer(_, _, _)
\* Mutant: a Reading that carries the error flag is raised as an exception
\* instead of being handed to the callback.
DispatchOrRaise(rest, record, p, out, leap) ==
    IF p.exc \/ Has(p.data, "error")
    THEN [buffer |-> rest, out |-> out, exc |-> TRUE]
    ELSE DrainBuffer(rest, Append(out, [raw |-> record, parsed |-> p.data]), leap)

Dispatch(rest, record, p, out, leap) ==
    IF p.exc THEN [buffer |-> rest, out |-> out, exc |-> TRUE]
    ELSE DrainBuffer(rest, Append(out, [raw |-> record, parsed |-> p.data]), leap)

ProcessRecord(rest, record, out, leap) ==
    IF record = <<>> THEN DrainBuffer(rest, out, leap)
    ELSE Dispatch(rest, record, ParseData(record, leap), out, leap)

DrainBuffer(buf, out, leap) ==
    IF ~Contains(buf, CR) THEN [buffer |-> buf, out |-> out, exc |-> FALSE]
    ELSE ProcessRecord(SplitFirst(buf).rest, Strip(SplitFirst(buf).record),
                       out, leap)

(***************************************************************************)
(* Channel store: CO2PlotWidget                                            *)
(***************************************************************************)

\* self._buffer_size, the capacity of every channel and time-axis deque
\* (5000 in the source, small here).
BufferSize == 2

\* max_points: int = 5000, the display span a widget is constructed with.
DefaultMaxPoints == 5000

\* self._filter_plot = None, written as a number no plot has.
NoPlot == -100

\* probe_type: str = "GENERIC", written as a number no probe type has.
GenericProbe == -200

\* The keys of the channel configurations, in the order the dicts list them.
ConfigKeys(cfg) ==
    CASE cfg = "SRC"  -> <<"cr", "dc", "dt", "sr", "atmp">>
      [] cfg = "IRGA" -> <<"cr", "hr", "atmp">>
      [] cfg = "HTR"  -> <<"cr", "hr", "par", "rh", "temp", "atmp">>
      [] cfg = "CPY"  -> <<"cr", "hr", "par", "evap", "temp", "dc", "flow",
                           "sr", "atmp">>
      [] cfg = "PMR"  -> <<"cr", "hr", "par", "rh", "temp", "rh_out", "flow",
                           "gs", "atmp">>
      [] OTHER        -> <<"cr", "hr", "aux1", "aux2", "aux3", "aux4", "aux5",
                           "atmp">>

KeySet(cfg) == {ConfigKeys(cfg)[i] : i \in 1..Len(ConfigKeys(cfg))}

\* _get_config_for_type: pt is a probe-type code, or "GENERIC", which int()
\* refuses.
GetConfigForType(pt) ==
    IF pt = GenericProbe THEN "GENERIC"
    ELSE CASE pt = 0 -> "IRGA"
           [] pt = 8 -> "SRC"
           [] pt = 11 -> "CPY"
           [] pt = 7 -> "PMR"
           [] pt \in {1, 2, 3} -> "HTR"
           [] OTHER -> "GENERIC"

\* Mutant: a buffer without a capacity.
DequeAppendUnbounded(q, v) == Append(q, v)

\* deque(maxlen=self._buffer_size).append(v)
DequeAppend(q, v) ==
    IF Len(q) >= BufferSize
    THEN SubSeq(q, Len(q) - BufferSize + 2, Len(q)) \o <<v>>
    ELSE Append(q, v)

\* {ch: deque(maxlen=...) for ch in config}
EmptyChannels(cfg) == [k \in KeySet(cfg) |-> <<>>]

\* CO2PlotWidget.__init__. shown is what the last replot drew; posted are the
\* ProbeTypeChanged messages; raised says the last call ended in a KeyError.
NewChart ==
    [max_points |-> DefaultMaxPoints,
     probe_type |-> GenericProbe,
     channels_config |-> "GENERIC",
     plot_data |-> EmptyDict,
     plot_dt |-> EmptyDict,
     known_plots |-> {},
     plot_probe_types |-> EmptyDict,
     first_data_received |-> FALSE,
     filter_plot |-> NoPlot,
     active_channel |-> "cr",
     current_plot |-> 0,
     current_dt |-> Zero,
     posted |-> <<>>,
     shown |-> [x |-> <<>>, y |-> <<>>],
     raised |-> FALSE]

\* The plots of a dict in ascending order: sorted(d.keys())
RECURSIVE Sorted(_)
Sorted(S) ==
    IF S = {} THEN <<>>
    ELSE <<CHOOSE m \in S : \A n \in S : m <= n>> \o
         Sorted(S \ {CHOOSE m \in S : \A n \in S : m <= n})

\* Mutant: every decrease of the time value starts a new session.
RECURSIVE AccumulatedDtAnyDrop(_, _, _)
AccumulatedDtAnyDrop(dt_data, offset, prev_dt) ==
    IF dt_data = <<>> THEN <<>>
    ELSE IF Head(dt_data) < prev_dt
    THEN <<Head(dt_data) + offset + prev_dt + 5>> \o
         AccumulatedDtAnyDrop(Tail(dt_data), offset + prev_dt + 5, Head(dt_data))
    ELSE <<Head(dt_data) + offset>> \o
         AccumulatedDtAnyDrop(Tail(dt_data), offset, Head(dt_data))

\* The loop of replot over the time values of the window: a value more than
\* 5 below the one before it starts a new session, and the offset grows by
\* the value before it plus 5.
RECURSIVE AccumulatedDt(_, _, _)
AccumulatedDt(dt_data, offset, prev_dt) ==
    IF dt_data = <<>> THEN <<>>
    ELSE IF Head(dt_data) < prev_dt - 5
    THEN <<Head(dt_data) + offset + prev_dt + 5>> \o
         AccumulatedDt(Tail(dt_data), offset + prev_dt + 5, Head(dt_data))
    ELSE <<Head(dt_data) + offset>> \o
         AccumulatedDt(Tail(dt_data), offset, Head(dt_data))

\* d.get(k, [])
GetOrEmpty(d, k) == IF k \in DOMAIN d THEN d[k] ELSE <<>>

\* full_data of replot when every plot is shown: the channel of the plots,
\* one plot after the other.
RECURSIVE Combined(_, _, _)
Combined(plot_data, plots, ch) ==
    IF plots = <<>> THEN <<>>
    ELSE GetOrEmpty(plot_data[Head(plots)], ch) \o
         Combined(plot_data, Tail(plots), ch)

FullData(c, ch) ==
    IF c.filter_plot # NoPlot
    THEN (IF c.filter_plot \in DOMAIN c.plot_data
          THEN GetOrEmpty(c.plot_data[c.filter_plot], ch) ELSE <<>>)
    ELSE Combined(c.plot_data, Sorted(DOMAIN c.plot_data), ch)

FullDt(c) ==
    IF c.filter_plot # NoPlot /\ c.filter_plot \in DOMAIN c.plot_data
    THEN GetOrEmpty(c.plot_dt, c.filter_plot)
    ELSE <<>>

\* if len(full_data) > max_points: data = full_data[-max_points:]
Window(full, n, max_points) ==
    IF n > max_points THEN SliceFrom(full, 0 - max_points) ELSE full

\* The seconds of a sequence of time values.
Seconds(dts) == [i \in 1..Len(dts) |-> dts[i].num]

\* The x values replot draws for a window of values and of times.
XValues(use_dt_axis, data, dt_data) ==
    IF use_dt_axis /\ Len(dt_data) = Len(data)
       /\ \E i \in 1..Len(dt_data) : dt_data[i] # 0
    THEN dt_data
    ELSE [i \in 1..Len(data) |-> i - 1]

Accumulated(use_dt_axis, dt_data) ==
    IF use_dt_axis /\ Len(dt_data) >= 2
    THEN AccumulatedDt(dt_data, 0, 0)
    ELSE dt_data

\* What replot draws: nothing while the window has fewer than two values.
Drawn(use_dt_axis, data, dt_data) ==
    IF Len(data) >= 2
    THEN [x |-> XValues(use_dt_axis, data, Accumulated(use_dt_axis, dt_data)),
          y |-> data]
    ELSE [x |-> <<>>, y |-> <<>>]

\* replot, once the active channel is in the configuration.
ReplotChannel(c, full_data, full_dt) ==
    [c EXCEPT !.shown =
        Drawn(c.filter_plot # NoPlot /\ c.filter_plot \in DOMAIN c.plot_data,
              Window(full_data, Len(full_data), c.max_points),
              Seconds(Window(full_dt, Len(full_data), c.max_points)))]

ReplotActive(c) == ReplotChannel(c, FullData(c, c.active_channel), FullDt(c))

\* replot: a channel the configuration does not have falls back to CO2.
Replot(c) ==
    IF c.active_channel \in KeySet(c.channels_config)
    THEN ReplotActive(c)
    ELSE ReplotActive([c EXCEPT !.active_channel = "cr"])

\* parsed_data.get('plot', 0), a plot number
PlotOf(r) == IF Has(r, "plot") THEN r["plot"].num ELSE 0

\* parsed_data.get('probe_type', "GENERIC")
ProbeOf(r) == IF Has(r, "probe_type") THEN r["probe_type"].num ELSE GenericProbe

\* add_data: the current plot and, when the Reading has one, the current DT.
TrackCurrent(c, r) ==
    [c EXCEPT !.current_plot = PlotOf(r),
              !.current_dt = IF Has(r, "dt") THEN r["dt"] ELSE @]

\* add_data on a change of configuration: the plots that exist get an empty
\* buffer for every key of the new configuration they do not have.
WithMissingKeys(plot_data, cfg) ==
    [p \in DOMAIN plot_data |->
       [k \in DOMAIN plot_data[p] \cup KeySet(cfg) |->
          IF k \in DOMAIN plot_data[p] THEN plot_data[p][k] ELSE <<>>]]

\* add_data: the first Reading with a probe type sets the configuration and
\* posts ProbeTypeChanged; later ones do so when the configuration differs.
DetectProbe(c, r) ==
    IF ~Has(r, "probe_type") THEN c
    ELSE IF ~c.first_data_received
    THEN [c EXCEPT !.first_data_received = TRUE,
                   !.probe_type = ProbeOf(r),
                   !.channels_config = GetConfigForType(ProbeOf(r)),
                   !.posted = Append(@, ProbeOf(r))]
    ELSE IF GetConfigForType(ProbeOf(r)) # c.channels_config
    THEN [c EXCEPT !.probe_type = ProbeOf(r),
                   !.channels_config = GetConfigForType(ProbeOf(r)),
                   !.posted = Append(@, ProbeOf(r)),
                   !.plot_data = WithMissingKeys(@, GetConfigForType(ProbeOf(r)))]
    ELSE c

\* self._plot_probe_types[plot_num] = str(...)
TrackPlotProbe(c, r) ==
    [c EXCEPT !.plot_probe_types = Put(@, PlotOf(r), ProbeOf(r))]

\* _get_plot_channels: the buffers of a plot, created on its first Reading.
GetPlotChannels(c, plot_num) ==
    IF plot_num \in DOMAIN c.plot_data THEN c
    ELSE [c EXCEPT !.plot_data = Put(@, plot_num, EmptyChannels(c.channels_config)),
                   !.plot_dt = Put(@, plot_num, <<>>),
                   !.known_plots = @ \cup {plot_num}]

\* Mutant: the elapsed time is appended to the time axis of every plot.
StoreDtAll(c, r) ==
    [c EXCEPT !.plot_dt = [p \in DOMAIN @ |->
        DequeAppend(@[p], IF Has(r, "dt") THEN r["dt"] ELSE c.current_dt)]]

\* self._plot_dt[plot_num].append(parsed_data.get('dt', self._current_dt))
StoreDt(c, r) ==
    [c EXCEPT !.plot_dt[PlotOf(r)] =
        DequeAppend(@, IF Has(r, "dt") THEN r["dt"] ELSE c.current_dt)]

\* parsed_data['cr'] = parsed_data['co2_ppm'], parsed_data['hr'] =
\* parsed_data['h2o']: the Reading as add_data leaves it.
Aliased(r) ==
    (IF Has(r, "h2o") THEN ("hr" :> r["h2o"]) ELSE EmptyDict) @@
    (IF Has(r, "co2_ppm") THEN ("cr" :> r["co2_ppm"]) ELSE EmptyDict) @@ r

\* float(val) of a number the decoder produced
FloatOf(val) == Num(val.num, val.den)

\* for ch_key in self._channels_config.keys(): the value of every key the
\* Reading has is appended to the plot's buffer of that key; a plot without
\* such a buffer raises KeyError and ends the loop.
RECURSIVE AppendChannels(_, _, _, _)
AppendChannels(c, r, keys, i) ==
    IF i > Len(keys) THEN c
    ELSE IF ~Has(r, keys[i]) THEN AppendChannels(c, r, keys, i + 1)
    ELSE IF keys[i] \notin DOMAIN c.plot_data[PlotOf(r)]
    THEN [c EXCEPT !.raised = TRUE]
    ELSE AppendChannels(
           [c EXCEPT !.plot_data[PlotOf(r)][keys[i]] =
                        DequeAppend(@, FloatOf(r[keys[i]]))],
           r, keys, i + 1)

StoreChannels(c, r) ==
    AppendChannels([c EXCEPT !.raised = FALSE], r, ConfigKeys(c.channels_config), 1)

\* if not batch_mode: self.replot(), unless the loop raised.
ReplotUnless(c, batch_mode) ==
    IF c.raised \/ batch_mode THEN c ELSE Replot(c)

\* add_data
AddData(c, r, batch_mode) ==
    ReplotUnless(
      StoreChannels(
        StoreDt(
          GetPlotChannels(
            TrackPlotProbe(DetectProbe(TrackCurrent(c, r), r), r),
            PlotOf(r)),
          r),
        Aliased(r)),
      batch_mode)

\* clear_data
ClearData(c) ==
    Replot([c EXCEPT !.plot_data = EmptyDict,
                     !.plot_dt = EmptyDict,
                     !.known_plots = {},
                     !.filter_plot = NoPlot,
                     !.raised = FALSE])

\* Mutant: the setter cuts every buffer down to the new window.
SetMaxPointsTruncating(c, value) ==
    Replot([c EXCEPT
      !.max_points = value,
      !.raised = FALSE,
      !.plot_data = [p \in DOMAIN @ |->
                       [k \in DOMAIN @[p] |-> SliceFrom(@[p][k], 0 - value)]],
      !.plot_dt = [p \in DOMAIN @ |-> SliceFrom(@[p], 0 - value)]])

\* The max_points setter.
SetMaxPoints(c, value) == Replot([c EXCEPT !.max_points = value, !.raised = FALSE])

\* _switch_to_plot_config, for a plot number: nothing when the plot's probe
\* type is the active one (GENERIC counting as 0), else the configuration
\* becomes the one of the plot's type and ProbeTypeChanged is posted.
PlotProbe(c, plot_num) ==
    IF plot_num \in DOMAIN c.plot_probe_types
    THEN c.plot_probe_types[plot_num] ELSE GenericProbe

SameProbe(pt, current) ==
    IF pt # GenericProbe
    THEN pt = (IF current = GenericProbe THEN 0 ELSE current)
    ELSE pt = current

SwitchTo(c, pt) ==
    [c EXCEPT !.probe_type = pt,
              !.channels_config = GetConfigForType(pt),
              !.posted = Append(@, pt),
              !.active_channel =
                 IF @ \in KeySet(GetConfigForType(pt)) THEN @ ELSE "cr"]

SwitchToPlotConfig(c, plot_num) ==
    IF plot_num = NoPlot THEN c
    ELSE IF SameProbe(PlotProbe(c, plot_num), c.probe_type) THEN c
    ELSE SwitchTo(c, PlotProbe(c, plot_num))

\* The filter_plot setter.
SetFilterPlot(c, value) ==
    Replot(SwitchToPlotConfig([c EXCEPT !.filter_plot = value, !.raised = FALSE],
                              value))

\* The plot next_plot moves to: the first one from "all", the one after the
\* current one, "all" after the last one.
NextOf(plots, current) ==
    IF current = NoPlot THEN plots[1]
    ELSE IF \E i \in 1..Len(plots) : plots[i] = current
    THEN (IF current = plots[Len(plots)] THEN NoPlot
          ELSE plots[(CHOOSE i \in 1..Len(plots) : plots[i] = current) + 1])
    ELSE plots[1]

\* next_plot
NextPlot(c) ==
    IF c.known_plots = {} THEN c
    ELSE SetFilterPlot(c, NextOf(Sorted(c.known_plots), c.filter_plot))

\* The plot prev_plot moves to.
PrevOf(plots, current) ==
    IF current = NoPlot THEN plots[Len(plots)]
    ELSE IF \E i \in 1..Len(plots) : plots[i] = current
    THEN (IF current = plots[1] THEN NoPlot
          ELSE plots[(CHOOSE i \in 1..Len(plots) : plots[i] = current) - 1])
    ELSE plots[Len(plots)]

\* prev_plot
PrevPlot(c) ==
    IF c.known_plots = {} THEN c
    ELSE SetFilterPlot(c, PrevOf(Sorted(c.known_plots), c.filter_plot))

(***************************************************************************)
(* Flux window: FluxCalculator                                             *)
(***************************************************************************)

\* FluxCalculator(window_size=30) of the monitor screen (30 in the source,
\* small here).
WindowSize == 3

\* FluxCalculator.__init__
NewFlux == [window_size |-> WindowSize, times |-> <<>>, co2 |-> <<>>]

\* Mutant: a list that has grown past the window loses its newest element.
PopNewest(l, window_size) ==
    IF Len(l) > window_size THEN SubSeq(l, 1, Len(l) - 1) ELSE l

\* list.pop(0) when the list has grown past the window
PopOldest(l, window_size) == IF Len(l) > window_size THEN Tail(l) ELSE l

\* add_point
AddPoint(f, time_s, co2_ppm) ==
    [f EXCEPT !.times = PopOldest(Append(@, time_s), f.window_size),
              !.co2 = PopOldest(Append(@, co2_ppm), f.window_size)]

\* clear
ClearFlux(f) == [f EXCEPT !.times = <<>>, !.co2 = <<>>]

RECURSIVE Sum(_)
Sum(l) == IF l = <<>> THEN 0 ELSE Head(l) + Sum(Tail(l))

\* x = [t - t_start for t in self.times]
Normalized(times) == [i \in 1..Len(times) |-> times[i] - times[1]]

Products(x, y) == [i \in 1..Len(x) |-> x[i] * y[i]]

Abs(v) == IF v < 0 THEN 0 - v ELSE v

\* RegressionResult(slope, intercept, r_squared, 0.0, n); the three numbers
\* are exact fractions.
RegressionResult(slope, intercept, r_squared, n) ==
    [slope |-> slope, intercept |-> intercept, r_squared |-> r_squared,
     std_err |-> Zero, n |-> n]

\* r_squared = (numerator_r / sqrt(abs(dx * dy))) ** 2, 0.0 when the square
\* root is 0.
RSquared(numerator_r, dx, dy) ==
    IF dx * dy = 0 THEN Zero
    ELSE Num(numerator_r * numerator_r, Abs(dx * dy))

\* Mutant: calculate without the test of the denominator.
RegressionUnguarded(n, sum_x, sum_y, sxy, denominator, dy) ==
    RegressionResult(
      Num(sxy, denominator),
      Num(sum_y * denominator - sxy * sum_x, denominator * n),
      RSquared(sxy, denominator, dy),
      n)

\* calculate, from the sums: sxy is n * sum_xy - sum_x * sum_y, denominator
\* is n * sum_xx - sum_x * sum_x, dy is n * sum_yy - sum_y * sum_y.
Regression(n, sum_x, sum_y, sxy, denominator, dy) ==
    IF denominator = 0
    THEN RegressionResult(Zero, Zero, Zero, n)
    ELSE RegressionResult(
           Num(sxy, denominator),
           Num(sum_y * denominator - sxy * sum_x, denominator * n),
           RSquared(sxy, denominator, dy),
           n)

LeastSquares(n, x, y) ==
    Regression(n, Sum(x), Sum(y),
               n * Sum(Products(x, y)) - Sum(x) * Sum(y),
               n * Sum(Products(x, x)) - Sum(x) * Sum(x),
               n * Sum(Products(y, y)) - Sum(y) * Sum(y))

\* calculate
Calculate(f) ==
    IF Len(f.times) < 2
    THEN RegressionResult(Zero, Zero, Zero, Len(f.times))
    ELSE LeastSquares(Len(f.times), Normalized(f.times), f.co2)

(***************************************************************************)
(* Physical flux: science/flux.py FluxCalculator.calculate                 *)
(***************************************************************************)

One == Num(1, 1)

\* What calculate has returned: nothing yet, None, or a FluxResult. The flux
\* of a FluxResult is its slope times a positive constant of the chamber, the
\* temperature and the pressure, and is not carried here.
NotCalled ==
    [state |-> "idle", slope |-> Zero, intercept |-> Zero, r_squared |-> Zero,
     valid_points |-> 0]

None == [NotCalled EXCEPT !.state = "none"]

FluxResult(slope, intercept, r_squared, valid_points) ==
    [state |-> "result", slope |-> slope, intercept |-> intercept,
     r_squared |-> r_squared, valid_points |-> valid_points]

\* if ss_tot == 0: r_squared = 0.0 if len(set(co2_ppm)) > 1 else 1.0
FlatRSquared(co2_ppm) ==
    IF Cardinality({co2_ppm[i] : i \in 1..Len(co2_ppm)}) > 1 THEN Zero ELSE One

\* statistics.linear_regression and the r-squared that follows it, from the
\* sums: sxy is n * sum_xy - sum_x * sum_y, sxx is n * sum_xx - sum_x *
\* sum_x, syy is n * sum_yy - sum_y * sum_y. A constant x raises
\* StatisticsError, which calculate turns into None; ss_tot is syy / n, and
\* 1 - ss_res / ss_tot of a least-squares line is sxy^2 / (sxx * syy).
FluxFit(n, sum_x, sum_y, sxy, sxx, syy, co2_ppm) ==
    IF sxx = 0 THEN None
    ELSE FluxResult(
           Num(sxy, sxx),
           Num(sum_y * sxx - sxy * sum_x, sxx * n),
           IF syy = 0 THEN FlatRSquared(co2_ppm) ELSE Num(sxy * sxy, sxx * syy),
           n)

\* calculate(times, co2_ppm)
FluxCalculate(times, co2_ppm) ==
    IF Len(times) < 3 \/ Len(times) # Len(co2_ppm) THEN None
    ELSE FluxFit(Len(times), Sum(times), Sum(co2_ppm),
                 Len(times) * Sum(Products(times, co2_ppm))
                   - Sum(times) * Sum(co2_ppm),
                 Len(times) * Sum(Products(times, times))
                   - Sum(times) * Sum(times),
                 Len(times) * Sum(Products(co2_ppm, co2_ppm))
                   - Sum(co2_ppm) * Sum(co2_ppm),
                 co2_ppm)

(***************************************************************************)
(* Session restore: MonitorScreen._restore_session                         *)
(***************************************************************************)

\* elapsed_time of a row written before the column existed: NULL, written
\* as a number no elapsed time is.
NoElapsed == -1

\* A row of the readings table: plot, stored elapsed time, and timestamp in
\* seconds; the other columns are those of a soil-respiration record with
\* every measurement zero.
Row(p, e, t) ==
    [plot_id |-> p, elapsed_time |-> e, ts |-> t, record_type |-> "R",
     record_num |-> Num(1, 1), co2 |-> Zero, h2o |-> Zero, temp_c |-> Zero,
     pressure |-> Zero, par |-> Zero, humidity |-> Zero, delta_co2 |-> Zero,
     soil_resp_rate |-> Zero, probe_type |-> Num(SrcProbeType, 1)]

\* data.get(key, 0)
GetOrZero(data, key) == IF Has(data, key) THEN data[key] ELSE Zero

\* insert_reading: the row written for a Reading. The timestamp column is
\* that of the Reading or the time of the call; seconds are not kept here.
InsertReading(data) ==
    [plot_id |-> PlotOf(data),
     elapsed_time |-> GetOrZero(data, "dt").num,
     ts |-> 0,
     record_type |-> IF Has(data, "type") THEN data["type"] ELSE "",
     record_num |-> GetOrZero(data, "record"),
     co2 |-> GetOrZero(data, "co2_ppm"),
     h2o |-> GetOrZero(data, "h2o"),
     temp_c |-> IF GetOrZero(data, "temp").num # 0 THEN data["temp"]
                ELSE GetOrZero(data, "rht"),
     pressure |-> GetOrZero(data, "atmp"),
     par |-> GetOrZero(data, "par"),
     humidity |-> GetOrZero(data, "rh"),
     delta_co2 |-> GetOrZero(data, "dc"),
     soil_resp_rate |-> GetOrZero(data, "sr"),
     probe_type |-> GetOrZero(data, "probe_type")]

\* r['elapsed_time'] or 0
ElapsedOrZero(row) ==
    IF row.elapsed_time = NoElapsed THEN 0 ELSE row.elapsed_time

\* key=lambda r: (r['plot_id'], r['elapsed_time'] or 0), and the order of
\* two such tuples.
KeyLess(a, b) ==
    \/ a.plot_id < b.plot_id
    \/ a.plot_id = b.plot_id /\ ElapsedOrZero(a) < ElapsedOrZero(b)

\* list.sort is stable: a row goes after the rows before it whose key is
\* not greater.
RECURSIVE InsertByKey(_, _)
InsertByKey(sorted, row) ==
    IF sorted = <<>> THEN <<row>>
    ELSE IF KeyLess(row, Head(sorted)) THEN <<row>> \o sorted
    ELSE <<Head(sorted)>> \o InsertByKey(Tail(sorted), row)

\* readings.sort(key=...)
RECURSIVE SortedByKey(_)
SortedByKey(rows) ==
    IF rows = <<>> THEN <<>>
    ELSE InsertByKey(SortedByKey(SubSeq(rows, 1, Len(rows) - 1)), rows[Len(rows)])

\* _fallback_plot_starts after a row: the timestamp of the first row of the
\* plot that has no stored elapsed time.
StartsAfter(starts, row) ==
    IF row.elapsed_time # NoElapsed \/ row.plot_id \in DOMAIN starts THEN starts
    ELSE Put(starts, row.plot_id, row.ts)

\* dt_val: the stored elapsed time, or the seconds since the start of the
\* plot.
DtVal(starts, row) ==
    IF row.elapsed_time # NoElapsed THEN row.elapsed_time
    ELSE row.ts - StartsAfter(starts, row)[row.plot_id]

\* The dict rebuilt from a row.
ParsedOfRow(row, dt_val) ==
    [k \in {"note", "sample_id", "sample_label", "sample_ppm", "sample_peak_ppm"}
       |-> ""] @@
    [timestamp |-> row.ts, type |-> row.record_type,
     plot |-> Num(row.plot_id, 1), record |-> row.record_num,
     co2 |-> row.co2, co2_ppm |-> row.co2, h2o |-> row.h2o, h2o_mb |-> row.h2o,
     temp |-> row.temp_c, temp_c |-> row.temp_c, atmp |-> row.pressure,
     atmp_mb |-> row.pressure, par |-> row.par, rh |-> row.humidity,
     rh_pct |-> row.humidity, dc |-> row.delta_co2, dc_ppm |-> row.delta_co2,
     sr |-> row.soil_resp_rate, sr_rate |-> row.soil_resp_rate,
     probe_type |-> row.probe_type,
     dt |-> Num(dt_val, 1), dt_s |-> Num(dt_val, 1)]

\* for row in readings: the dicts given to add_data, in order.
RECURSIVE Replay(_, _, _)
Replay(rows, starts, i) ==
    IF i > Len(rows) THEN <<>>
    ELSE <<ParsedOfRow(rows[i], DtVal(starts, rows[i]))>>
         \o Replay(rows, StartsAfter(starts, rows[i]), i + 1)

\* chart.add_data(parsed, batch_mode=True) for each of them.
RECURSIVE AddAll(_, _, _)
AddAll(c, rs, i) ==
    IF i > Len(rs) THEN c ELSE AddAll(AddData(c, rs[i], TRUE), rs, i + 1)

\* _restore_session on the chart: clear_data, the replay of the rows unless
\* there are none, and one replot.
Restored(c, rs) ==
    IF rs = <<>> THEN ClearData(c) ELSE Replot(AddAll(ClearData(c), rs, 1))

(***************************************************************************)
(* Inputs                                                                  *)
(***************************************************************************)

\* The literal records of tests/test_parser.py.
SrcFrame ==
    << "R", "0", "0", "0", "0", "0", "1", "1", "8", "0", "3", "1", "3", "1", "7", "0",
       "0", "4", "2", "9", "0", "0", "0", "0", "0", "0", "0", "0", "0", "0", "0", "0",
       "0", "0", "0", "0", "0", "0", "0", "0", "0", "0", "0", "0", "0", "0", "0", "0",
       "0", "0", "0", "0", "0", "0", "0", "0", "9", "6", "5", "0", "8" >>

NonSrcFrame ==
    << "M", "0", "8", "0", "0", "2", "8", "2", "6", "0", "1", "1", "3", "0", "6", "0",
       "0", "4", "7", "6", "0", "0", "0", "0", "0", "0", "0", "0", "0", "0", "0", "0",
       "0", "0", "0", "0", "0", "0", "0", "0", "0", "0", "0", "0", "0", "0", "0", "0",
       "0", "0", "0", "0", "0", "0", "0", "0", "9", "9", "5", "0", "0" >>

Type11Frame ==
    << "M", "0", "1", "0", "0", "0", "1", "1", "5", "0", "1", "1", "2", "3", "0", "0",
       "0", "4", "2", "0", "0", "0", "0", "5", "0", "0", "0", "1", "2", "3", "0", "1",
       "2", "3", "0", "0", "4", "2", "0", "2", "3", "4", "0", "0", "1", "5", "0", "1",
       "2", "3", "0", "4", "5", "6", "2", "0", "-", "9", "8", "7", "6", "1", "1" >>

\* A 20-character real-time record: the fixed header alone.
HeaderOnlyFrame ==
    << "M", "0", "1", "0", "0", "0", "1", "1", "5", "0", "1", "1", "2", "3", "0", "0",
       "0", "4", "2", "0" >>

\* The same with a plot number that is no number.
BadPlotFrame ==
    << "R", "X", "Y", "0", "0", "0", "1", "1", "5", "0", "1", "1", "2", "3", "0", "0",
       "0", "4", "2", "0" >>

\* Frames the instrument sends in the read-loop model: none (an empty line),
\* an end-of-dump marker, a non-ASCII character after a blank, a measurement
\* and a measurement with an unparseable header.
FramePool ==
    { <<>>, <<"Z">>, <<" ", LeadByte, ContByte>>, HeaderOnlyFrame,
      BadPlotFrame }

\* The most frames of one stream; the last one is the unterminated tail.
MaxFrames == 3

\* The most bytes one read returns.
MaxChunk == 4

\* '\r'.join(frames)
RECURSIVE JoinCR(_)
JoinCR(frames) ==
    IF Len(frames) = 1 THEN frames[1]
    ELSE frames[1] \o <<CR>> \o JoinCR(Tail(frames))

Streams ==
    UNION { {JoinCR(fs) : fs \in [1..n -> FramePool]} : n \in 1..MaxFrames }

\* Characters a record of the decoder model has one position replaced by.
SubstChars == {"X", " ", "-", "9"}

Substituted(f) ==
    { [f EXCEPT ![i] = c] : i \in 1..Len(f), c \in SubstChars }

Prefixes(f) == { SubSeq(f, 1, n) : n \in 0..Len(f) }

\* Soil-respiration records cut short: the first n characters of the test
\* record followed by the probe code 08, from 20 characters in all.
ShortSrcFrames == { SubSeq(SrcFrame, 1, n) \o <<"0", "8">> : n \in 18..42 }

\* Lines given to the decoder model: the test records, each cut at every
\* length and with every single position replaced, the non-measurement
\* records of the tests and variations of them.
ParseInputs ==
    UNION { Prefixes(f) \cup Substituted(f) :
            f \in {SrcFrame, NonSrcFrame, Type11Frame} }
    \cup Prefixes(<<"W", ",", "+", "5", "4">>)
    \cup Prefixes(<<"Z", ",", "+", "1", ".", "0">>)
    \cup Prefixes(<<"B", ",", "1", ",", " ", "4", "2", "0", ",", "X">>)
    \cup { <<"Z", ",", "+", "1", "0">>, <<"W", ",", "X">>, <<"Q", "1">>,
           <<EAcute>> }
    \cup ShortSrcFrames

\* The most error messages, queued or handled, at which a failing read is
\* still modelled.
MaxQueued == 2

\* Texts of the exceptions a failing read raises.
ReadFailures == {"device not configured", "read timeout"}

\* Streams of the link model: an end-of-dump marker, and a frame of unknown
\* kind followed by one.
LinkStreams == { <<"Z", CR>>, <<"Q", CR, "Z", CR>> }

\* The plots of the Readings given to the channel store.
StorePlots == {1, 2}

\* The most Readings given to the channel store.
MaxAdds == 3

\* A measurement record with plot p and concentration n, both below 10.
Renumbered(f, p, n) ==
    [f EXCEPT ![2] = "0", ![3] = DigitChars[p + 1],
              ![16] = "0", ![17] = "0", ![18] = "0", ![19] = "0",
              ![20] = DigitChars[n + 1]]

\* The Reading of a soil-respiration record with elapsed time dt, and of a
\* record without a probe.
SrcReading(p, n, dt) ==
    ParseData([Renumbered(SrcFrame, p, n) EXCEPT ![47] = DigitChars[dt + 1]],
              FALSE).data

IrgaReading(p, n) == ParseData(Renumbered(NonSrcFrame, p, n), FALSE).data

\* The Readings the n-th call of add_data is given: the concentration is n.
StoreReadings(n) ==
    {SrcReading(p, n, dt) : p \in StorePlots, dt \in {0, 9}}
    \cup {IrgaReading(p, n) : p \in StorePlots}

\* The most ProbeTypeChanged messages at which a change of plot is still
\* modelled.
MaxPosted == 3

\* Display windows the zoom sets.
ViewSpans == {1, 3}

\* Elapsed-time values of the timeline model, and the most of them.
DtValues == {0, 3, 5, 8, 10}

MaxTimeline == 5

\* Times and concentrations given to the flux window, and the most calls of
\* add_point.
FluxTimes == {0, 1, 2}

FluxValues == {0, 1}

MaxFluxAdds == 4

\* The rows of a stored session, as get_session_readings returns them, and
\* the most of them.
MaxRows == 3

\* The most times, and the most concentrations, given to the physical-flux
\* calculator.
MaxFluxInputs == 4

StoredRow == {Row(p, e, t) : p \in StorePlots, e \in {NoElapsed, 0, 5}, t \in {0, 10}}

StoredRows == UNION {[1..n -> StoredRow] : n \in 0..MaxRows}

(***************************************************************************)
(* State                                                                   *)
(***************************************************************************)

VARIABLES
    leapYear,     \* whether datetime.now().year is a leap year
    portPresent,  \* whether list_ports.comports() lists the screen's port
    worker,       \* start_serial_reading: "start", "loop" or "ended"
    wire,         \* bytes the instrument has sent that no read has returned
    isOpen,       \* transport.is_open
    running,      \* EGM4Serial.running
    buffer,       \* EGM4Serial.buffer
    fedBytes,     \* history: every byte the reads have returned, in order
    fedText,      \* history: the decoded chunks, concatenated
    dispatched,   \* history: the (record, parsed) pairs given to data_callback
    rawLog,       \* lines written to MonitorScreen.raw_log_file
    mq,           \* the screen's message queue
    isPaused,     \* MonitorScreen.is_paused
    observed,     \* history: DataReceived messages the handler acted on
    failures,     \* history: texts of the SerialError messages it acted on
    isConnected,  \* StatsWidget.is_connected
    appError,     \* an exception has left a handler of the screen
    appStopped,   \* the framework has shut the application down
    chart,        \* the CO2PlotWidget
    added,        \* history: the Readings given to add_data
    clearedAt,    \* history: Len(added) at the last clear_data, -1 before
    postedBefore, \* history: Len(chart.posted) at the last clear_data
    flux,         \* the FluxCalculator
    points,       \* history: the pairs given to add_point since the last clear
    result,       \* what calculate returned last
    tline,        \* timeline model: elapsed-time values of one plot
    axis,         \* timeline model: the x values replot draws for them
    pline,        \* decoder model: the line given to _parse_data
    pres,         \* decoder model: what _parse_data returned
    ppc,          \* decoder model: "idle", "call" or "done"
    teardown,     \* a call of disconnect: "no", "flag" (running cleared) or "closed"
    tails,        \* history: the buffer at each read failure reported
    handed,       \* history: the Readings of added as add_data left them
    saved,        \* history: the Readings given to save_reading_worker
    staticMode,   \* MonitorScreen.static_sampling_mode
    sampleStep,   \* MonitorScreen._sample_flow_step
    captureActive, \* MonitorScreen._sample_capture_active
    samplePeak,   \* MonitorScreen._sample_peak_ppm
    sampleCounter, \* MonitorScreen._sample_counter
    currentCo2,   \* StatsWidget.current_co2
    dialog,       \* the modal screen on top of the monitor screen, or "none"
    events,       \* the NOTE and SAMPLE rows of MonitorScreen.recorded_data
    issued,       \* history: the sample ids of the SAMPLE rows recorded
    physTimes,    \* physical-flux model: the times given to calculate
    physCo2,      \* physical-flux model: the concentrations given to it
    physResult    \* physical-flux model: what calculate returned

envVars == <<leapYear, portPresent>>

driverVars == <<teardown, tails>>

loopVars == <<worker, wire, isOpen, running, buffer, fedBytes, fedText, dispatched,
              rawLog>>

screenVars == <<mq, isPaused, observed, failures, isConnected, appError,
               appStopped>>

storeVars == <<chart, added, clearedAt, postedBefore, handed, saved>>

fluxVars == <<flux, points, result>>

timelineVars == <<tline, axis>>

parseVars == <<pline, pres, ppc>>

sampleVars == <<staticMode, sampleStep, captureActive, samplePeak, sampleCounter,
               currentCo2, dialog, events, issued>>

physVars == <<physTimes, physCo2, physResult>>

vars == <<envVars, driverVars, loopVars, screenVars, storeVars, fluxVars, timelineVars,
          parseVars, sampleVars, physVars>>

NoResult == [exc |-> FALSE, data |-> EmptyDict]

\* EGM4Serial.__init__, MonitorScreen.__init__ and on_mount with a port: the
\* worker is started and the stats widget is told the link is up.
\* None, for current_co2 and _sample_peak_ppm.
NoCo2 == -1

Constructed ==
    /\ worker = "start"
    /\ isOpen = FALSE
    /\ running = FALSE
    /\ buffer = <<>>
    /\ fedBytes = <<>>
    /\ fedText = <<>>
    /\ dispatched = <<>>
    /\ rawLog = <<>>
    /\ mq = <<>>
    /\ isPaused = FALSE
    /\ observed = <<>>
    /\ failures = <<>>
    /\ isConnected = TRUE
    /\ appError = FALSE
    /\ appStopped = FALSE
    /\ chart = NewChart
    /\ added = <<>>
    /\ clearedAt = -1
    /\ postedBefore = 0
    /\ handed = <<>>
    /\ saved = <<>>
    /\ teardown = "no"
    /\ tails = <<>>
    /\ flux = NewFlux
    /\ points = <<>>
    /\ result = RegressionResult(Zero, Zero, Zero, 0)
    /\ staticMode = FALSE
    /\ sampleStep = "idle"
    /\ captureActive = FALSE
    /\ samplePeak = NoCo2
    /\ sampleCounter = 0
    /\ currentCo2 = NoCo2
    /\ dialog = "none"
    /\ events = <<>>
    /\ issued = <<>>

\* The attributes a StatsWidget has: its reactive properties and _history.
StatsAttributes ==
    {"current_co2", "is_connected", "record_count", "port_name", "is_paused",
     "data_mode", "device_status", "hw_record", "flux_slope", "flux_r2",
     "_history"}

\* Mutant: a stats widget that has every counter the screen adds to.
AnyAttr(name) == TRUE

\* stats.<name> += 1 raises AttributeError when the widget has no such
\* attribute.
HasAttr(name) == name \in StatsAttributes

DataReceived(seq, raw, parsed) ==
    [kind |-> "data", seq |-> seq, raw |-> raw, parsed |-> parsed,
     message |-> ""]

\* A SerialError message with its text.
SerialError(msg) ==
    [kind |-> "error", seq |-> 0, raw |-> <<>>, parsed |-> EmptyDict,
     message |-> msg]

\* Mutant: the message is put at the head of the queue.
PostMessageFirst(q, m) == <<m>> \o q

\* post_message: the message joins the end of the screen's queue.
PostMessage(q, m) == Append(q, m)

\* on_data for each call of data_callback, in the order of the calls: the
\* raw line goes to the raw log and a DataReceived message is posted.
RECURSIVE OnDataAll(_, _, _)
OnDataAll(q, out, n) ==
    IF out = <<>> THEN q
    ELSE OnDataAll(PostMessage(q, DataReceived(n + 1, Head(out).raw, Head(out).parsed)),
                   Tail(out), n + 1)

RawLines(out) == [i \in 1..Len(out) |-> out[i].raw]

(***************************************************************************)
(* Operations                                                              *)
(***************************************************************************)

\* An exception leaves a handler of the screen. What the framework does with
\* it is not in the source: the application is shut down, or goes on.
Raise ==
    /\ appError' = TRUE
    /\ appStopped' \in BOOLEAN

\* start_serial_reading, to the start of the loop: EGM4Serial.connect
\* opens the transport and sets running.
Connect ==
    /\ ~appStopped
    /\ worker = "start"
    /\ worker' = "loop"
    /\ isOpen' = TRUE
    /\ running' = TRUE
    /\ UNCHANGED <<envVars, driverVars, wire, buffer, fedBytes, fedText,
                   dispatched, rawLog, screenVars, storeVars, fluxVars,
                   timelineVars, parseVars, physVars, sampleVars>>

\* start_serial_reading when the transport does not open: error_callback
\* posts a SerialError, the worker posts a second one and returns.
ConnectFail ==
    /\ ~appStopped
    /\ worker = "start"
    /\ Len(mq) < MaxQueued
    /\ worker' = "ended"
    /\ mq' = PostMessage(PostMessage(mq, SerialError("Failed to connect")),
                         SerialError("Failed to connect"))
    /\ UNCHANGED <<envVars, driverVars, wire, isOpen, running, buffer,
                   fedBytes, fedText, dispatched, rawLog, isPaused, observed,
                   failures, isConnected, appError, appStopped, storeVars,
                   fluxVars, timelineVars, parseVars, physVars, sampleVars>>

\* One iteration of process_loop that reads a non-empty chunk: decode it,
\* add it to the buffer, drain the buffer. An exception in the iteration is
\* reported through error_callback while running.
Drained(d) ==
    /\ buffer' = d.buffer
    /\ dispatched' = dispatched \o d.out
    /\ rawLog' = rawLog \o RawLines(d.out)
    /\ mq' = IF d.exc
             THEN PostMessage(OnDataAll(mq, d.out, Len(dispatched)),
                              SerialError("ValueError"))
             ELSE OnDataAll(mq, d.out, Len(dispatched))

Decoded(text) ==
    /\ fedText' = fedText \o text
    /\ Drained(DrainBuffer(buffer \o text, <<>>, leapYear))

LoopRead ==
    /\ ~appStopped
    /\ worker = "loop" /\ running /\ isOpen
    /\ \E n \in 1..MaxChunk :
         /\ n <= Len(wire)
         /\ wire' = SubSeq(wire, n + 1, Len(wire))
         /\ fedBytes' = fedBytes \o SubSeq(wire, 1, n)
         /\ Decoded(Utf8DecodeIgnore(SubSeq(wire, 1, n)))
    /\ UNCHANGED <<envVars, driverVars, worker, isOpen, running, isPaused,
                   observed, failures, isConnected, appError, appStopped,
                   storeVars, fluxVars, timelineVars, parseVars, physVars, sampleVars>>

\* One iteration of process_loop whose read raises while running: the text
\* of the exception goes to error_callback, which posts a SerialError; the
\* buffer is kept and the loop goes on.
LoopReadFail ==
    /\ ~appStopped
    /\ worker = "loop" /\ running /\ isOpen
    /\ Len(mq) + Len(failures) < MaxQueued
    /\ \E msg \in ReadFailures : mq' = PostMessage(mq, SerialError(msg))
    /\ tails' = Append(tails, buffer)
    /\ UNCHANGED <<envVars, teardown, loopVars, isPaused, observed, failures,
                   isConnected, appError, appStopped, storeVars, fluxVars,
                   timelineVars, parseVars, physVars, sampleVars>>

\* The transport reports that it is no longer open (WebSerialTransport.read
\* does after a failed read).
TransportCloses ==
    /\ worker = "loop" /\ isOpen
    /\ isOpen' = FALSE
    /\ UNCHANGED <<envVars, driverVars, worker, wire, running, buffer,
                   fedBytes, fedText, dispatched, rawLog, screenVars,
                   storeVars, fluxVars, timelineVars, parseVars, physVars, sampleVars>>

\* process_loop: while self.running and self.transport.is_open ends.
LoopExit ==
    /\ worker = "loop" /\ ~(running /\ isOpen)
    /\ worker' = "ended"
    /\ UNCHANGED <<envVars, driverVars, wire, isOpen, running, buffer,
                   fedBytes, fedText, dispatched, rawLog, screenVars,
                   storeVars, fluxVars, timelineVars, parseVars, physVars, sampleVars>>

\* Mutant: the except clause reports the failure whether or not running is
\* set.
ReportedAlways(q, isRunning, msg) == PostMessage(q, SerialError(msg))

\* except Exception as e: if self.running: ... self.error_callback(str(e))
Reported(q, isRunning, msg) ==
    IF isRunning THEN PostMessage(q, SerialError(msg)) ELSE q

\* Mutant: the except clause ends the loop.
AfterFailureEnds(isRunning) == "ended"

\* The except clause: the loop sleeps and goes on while running, and breaks
\* otherwise.
AfterFailure(isRunning) == IF isRunning THEN "loop" ELSE "ended"

\* process_loop, from the test of the while to the await of the read: a read
\* is issued while running is set and the transport is open.
IssueRead ==
    /\ ~appStopped
    /\ worker = "loop" /\ running /\ isOpen
    /\ worker' = "read"
    /\ UNCHANGED <<envVars, driverVars, wire, isOpen, running, buffer,
                   fedBytes, fedText, dispatched, rawLog, screenVars,
                   storeVars, fluxVars, timelineVars, parseVars, physVars, sampleVars>>

\* The body of the loop after a chunk that is not empty: the frames drained
\* are dispatched; an exception in the body goes to the except clause.
Processed(d) ==
    /\ buffer' = d.buffer
    /\ dispatched' = dispatched \o d.out
    /\ rawLog' = rawLog \o RawLines(d.out)
    /\ mq' = IF d.exc
             THEN Reported(OnDataAll(mq, d.out, Len(dispatched)), running,
                           "ValueError")
             ELSE OnDataAll(mq, d.out, Len(dispatched))
    /\ worker' = IF d.exc THEN AfterFailure(running) ELSE "loop"

\* The read in flight returns: an empty chunk sends the loop back to the
\* test of the while, any other is decoded onto the buffer and drained.
ReadReturns ==
    /\ ~appStopped
    /\ worker = "read"
    /\ \E n \in 0..MaxChunk :
         /\ n <= Len(wire)
         /\ IF n = 0
            THEN /\ worker' = "loop"
                 /\ UNCHANGED <<wire, buffer, fedBytes, fedText, dispatched,
                                rawLog, mq>>
            ELSE /\ wire' = SubSeq(wire, n + 1, Len(wire))
                 /\ fedBytes' = fedBytes \o SubSeq(wire, 1, n)
                 /\ fedText' = fedText \o Utf8DecodeIgnore(SubSeq(wire, 1, n))
                 /\ Processed(DrainBuffer(buffer \o Utf8DecodeIgnore(SubSeq(wire, 1, n)),
                                          <<>>, leapYear))
    /\ UNCHANGED <<envVars, driverVars, isOpen, running, isPaused, observed,
                   failures, isConnected, appError, appStopped, storeVars,
                   fluxVars, timelineVars, parseVars, physVars, sampleVars>>

\* The read in flight raises: the except clause.
ReadRaises ==
    /\ ~appStopped
    /\ worker = "read"
    /\ running => Len(tails) < MaxQueued
    /\ \E msg \in ReadFailures : mq' = Reported(mq, running, msg)
    /\ tails' = IF running THEN Append(tails, buffer) ELSE tails
    /\ worker' = AfterFailure(running)
    /\ UNCHANGED <<envVars, teardown, wire, isOpen, running, buffer, fedBytes,
                   fedText, dispatched, rawLog, isPaused, observed, failures,
                   isConnected, appError, appStopped, storeVars, fluxVars,
                   timelineVars, parseVars, physVars, sampleVars>>

\* EGM4Serial.disconnect, to its await: running is cleared.
DisconnectFlag ==
    /\ teardown = "no"
    /\ running' = FALSE
    /\ teardown' = "flag"
    /\ UNCHANGED <<envVars, tails, worker, wire, isOpen, buffer, fedBytes,
                   fedText, dispatched, rawLog, screenVars, storeVars,
                   fluxVars, timelineVars, parseVars, physVars, sampleVars>>

\* EGM4Serial.disconnect, after its await: the transport has been closed.
DisconnectClose ==
    /\ teardown = "flag"
    /\ isOpen' = FALSE
    /\ teardown' = "no"
    /\ UNCHANGED <<envVars, tails, worker, wire, running, buffer, fedBytes,
                   fedText, dispatched, rawLog, screenVars, storeVars,
                   fluxVars, timelineVars, parseVars, physVars, sampleVars>>

\* Mutant: the worker is started again whether or not the reader is running.
MayRestartAlways(isRunning) == TRUE

\* if self.serial and not getattr(self.serial, 'running', False)
MayRestart(isRunning) == ~isRunning

\* self.start_serial_reading() for a reader that is not running: the worker
\* is exclusive, so the one before it is cancelled and a new one starts.
Restart ==
    /\ ~appStopped
    /\ MayRestart(running)
    /\ worker # "start"
    /\ worker' = "start"
    /\ UNCHANGED <<envVars, driverVars, wire, isOpen, running, buffer,
                   fedBytes, fedText, dispatched, rawLog, screenVars,
                   storeVars, fluxVars, timelineVars, parseVars, physVars, sampleVars>>

\* The operating system starts or stops listing the port.
PortChange ==
    /\ portPresent' = ~portPresent
    /\ UNCHANGED <<leapYear, driverVars, loopVars, screenVars, storeVars,
                   fluxVars, timelineVars, parseVars, physVars, sampleVars>>

\* handle_data_received: the two counter statements, parse_errors for a
\* Reading with the error flag or of unknown type, parsed_records for a
\* measurement, pass when the stats widget has the attribute.
Counted(parsed) ==
    /\ (Has(parsed, "error") \/ parsed["type"] = "unknown") => HasAttr("parse_errors")
    /\ parsed["type"] \in {"R", "M"} => HasAttr("parsed_records")

\* parsed.get('co2_ppm', 0)
CO2Of(parsed) == IF Has(parsed, "co2_ppm") THEN parsed["co2_ppm"].num ELSE 0

\* flux_calc.add_point(time.time(), co2) and flux_calc.calculate()
FluxUpdate(now, co2) ==
    /\ flux' = AddPoint(flux, now, co2)
    /\ points' = Append(points, <<now, co2>>)
    /\ result' = Calculate(AddPoint(flux, now, co2))

\* parsed['timestamp'] = timestamp: the handler writes the time of the
\* Reading into it.
Stamped(parsed) == Put(parsed, "timestamp", "now")

\* if self._sample_capture_active: if self._sample_peak_ppm is None or
\* co2 > self._sample_peak_ppm: self._sample_peak_ppm = co2
TrackPeak(active, peak, co2) ==
    IF active /\ (peak = NoCo2 \/ co2 > peak) THEN co2 ELSE peak

\* handle_data_received for a measurement, past the counters: the Reading
\* gets its timestamp, the sampling peak follows it, it goes to
\* save_reading_worker when a session is being recorded, to the chart, to
\* the stats widget, then to the flux window.
Measured(parsed) ==
    /\ samplePeak' = TrackPeak(captureActive, samplePeak, CO2Of(parsed))
    /\ \E recording \in BOOLEAN :
         saved' = IF recording THEN Append(saved, Stamped(parsed)) ELSE saved
    /\ chart' = AddData(chart, Stamped(parsed), FALSE)
    /\ added' = Append(added, Stamped(parsed))
    /\ handed' = Append(handed, Aliased(Stamped(parsed)))
    /\ UNCHANGED <<clearedAt, postedBefore>>
    /\ IF chart'.raised
       THEN Raise /\ UNCHANGED <<fluxVars, currentCo2>>
       ELSE /\ currentCo2' = CO2Of(parsed)
            /\ \E now \in FluxTimes : FluxUpdate(now, CO2Of(parsed))
            /\ UNCHANGED <<appError, appStopped>>

\* Mutant: the handler acts on the Reading whether paused or not.
ReturnsNever(paused) == FALSE

\* if self.is_paused: return
ReturnsAtOnce(paused) == paused

\* handle_data_received, for the next message of the queue: nothing while
\* paused; otherwise the counters, then the branch of the record type.
HandleDataReceived ==
    /\ ~appStopped
    /\ mq # <<>> /\ Head(mq).kind = "data"
    /\ mq' = Tail(mq)
    /\ IF ReturnsAtOnce(isPaused)
       THEN UNCHANGED <<observed, appError, appStopped, storeVars, fluxVars,
                        samplePeak, currentCo2>>
       ELSE /\ observed' = Append(observed, Head(mq))
            /\ IF ~Counted(Head(mq).parsed)
               THEN Raise /\ UNCHANGED <<storeVars, fluxVars, samplePeak,
                                         currentCo2>>
               ELSE IF Head(mq).parsed["type"] \in {"R", "M"}
               THEN Measured(Head(mq).parsed)
               ELSE UNCHANGED <<appError, appStopped, storeVars, fluxVars,
                                samplePeak, currentCo2>>
    /\ UNCHANGED <<envVars, driverVars, loopVars, isPaused, failures,
                   isConnected, timelineVars, parseVars, physVars, staticMode,
                   sampleStep, captureActive, sampleCounter, dialog, events,
                   issued>>

\* if "device" in event.message.lower() or "disconnected" in ...
MentionsDevice(msg) == msg \in {"device not configured", "device disconnected"}

\* handle_serial_error, for the next message of the queue: the error is
\* logged, serial_errors is counted, and a message that mentions the device
\* marks the link as down.
HandleSerialError ==
    /\ ~appStopped
    /\ mq # <<>> /\ Head(mq).kind = "error"
    /\ mq' = Tail(mq)
    /\ failures' = Append(failures, Head(mq).message)
    /\ IF ~HasAttr("serial_errors")
       THEN Raise /\ UNCHANGED isConnected
       ELSE /\ isConnected' = (isConnected /\ ~MentionsDevice(Head(mq).message))
            /\ UNCHANGED <<appError, appStopped>>
    /\ UNCHANGED <<envVars, driverVars, loopVars, isPaused, observed,
                   storeVars, fluxVars, timelineVars, parseVars, physVars, sampleVars>>

\* _check_usb_port on a port that is listed while the link is marked down:
\* the link is marked up, reconnect_count is counted, and a reader that is
\* not running is started again.
Reconnected ==
    /\ isConnected' = TRUE
    /\ IF ~HasAttr("reconnect_count")
       THEN Raise /\ UNCHANGED worker
       ELSE /\ worker' = IF ~running THEN "start" ELSE worker
            /\ UNCHANGED <<appError, appStopped>>

\* _check_usb_port, the periodic check.
CheckUsbPort ==
    /\ ~appStopped
    /\ IF ~portPresent
       THEN isConnected' = FALSE /\ UNCHANGED <<worker, appError, appStopped>>
       ELSE IF isConnected
       THEN UNCHANGED <<worker, isConnected, appError, appStopped>>
       ELSE Reconnected
    /\ UNCHANGED <<envVars, driverVars, wire, isOpen, running, buffer,
                   fedBytes, fedText, dispatched, rawLog, mq, isPaused,
                   observed, failures, storeVars, fluxVars, timelineVars,
                   parseVars, physVars, sampleVars>>

\* action_pause
ActionPause ==
    /\ ~appStopped
    /\ isPaused' = ~isPaused
    /\ UNCHANGED <<envVars, driverVars, loopVars, mq, observed, failures,
                   isConnected, appError, appStopped, storeVars, fluxVars,
                   timelineVars, parseVars, physVars, sampleVars>>

\* What a note dialog returns when it is not cancelled: the text typed.
Notes == {"", "a"}

\* The most event rows of a screen, and the most samples it captures.
MaxSamples == 2

\* sample_id of a row that is not a SAMPLE row: ''
NoSampleId == 0

\* The row _save_event_row appends to recorded_data.
EventRow(row_type, note, sample_id, ppm, peak) ==
    [type |-> row_type, note |-> note, sample_id |-> sample_id,
     sample_ppm |-> ppm, sample_peak_ppm |-> peak]

\* _reset_sample_cycle: peak capture ends and the step is inject.
ResetSampleCycle ==
    /\ captureActive' = FALSE
    /\ samplePeak' = NoCo2
    /\ sampleStep' = "inject"

\* Mutant: switching the mode off leaves the step where it was.
StepWhenOffKept(step) == step

\* action_toggle_static_mode, mode off: self._sample_flow_step = idle
StepWhenOff(step) == "idle"

\* action_toggle_static_mode
ActionToggleStaticMode ==
    /\ ~appStopped /\ dialog = "none"
    /\ staticMode' = ~staticMode
    /\ IF ~staticMode
       THEN ResetSampleCycle
       ELSE /\ sampleStep' = StepWhenOff(sampleStep)
            /\ captureActive' = FALSE
            /\ samplePeak' = NoCo2
    /\ UNCHANGED <<sampleCounter, currentCo2, dialog, events, issued, envVars,
                   driverVars, loopVars, screenVars, storeVars, fluxVars,
                   timelineVars, parseVars, physVars>>

\* action_reset_static_cycle: nothing unless the mode is on.
ActionResetStaticCycle ==
    /\ ~appStopped /\ dialog = "none"
    /\ staticMode
    /\ ResetSampleCycle
    /\ UNCHANGED <<staticMode, sampleCounter, currentCo2, dialog, events,
                   issued, envVars, driverVars, loopVars, screenVars,
                   storeVars, fluxVars, timelineVars, parseVars, physVars>>

\* action_add_note: with the mode off the note dialog is opened; with it on
\* the workflow moves by the step it is at, and at settle the label dialog
\* is opened.
ActionAddNote ==
    /\ ~appStopped /\ dialog = "none"
    /\ IF ~staticMode
       THEN /\ Len(events) < MaxSamples
            /\ dialog' = "note"
            /\ UNCHANGED <<sampleStep, captureActive, samplePeak>>
       ELSE IF sampleStep = "idle"
       THEN ResetSampleCycle /\ UNCHANGED dialog
       ELSE IF sampleStep = "inject"
       THEN /\ captureActive' = TRUE
            /\ samplePeak' = currentCo2
            /\ sampleStep' = "settle"
            /\ UNCHANGED dialog
       ELSE IF sampleStep = "settle"
       THEN /\ sampleCounter < MaxSamples /\ Len(events) < MaxSamples
            /\ dialog' = "label"
            /\ UNCHANGED <<sampleStep, captureActive, samplePeak>>
       ELSE ResetSampleCycle /\ UNCHANGED dialog
    /\ UNCHANGED <<staticMode, sampleCounter, currentCo2, events, issued,
                   envVars, driverVars, loopVars, screenVars, storeVars,
                   fluxVars, timelineVars, parseVars, physVars>>

\* handle_note: the note dialog is dismissed; a text that is not empty is
\* saved as a NOTE row, a cancelled dialog or an empty text as nothing.
HandleNote ==
    /\ ~appStopped /\ dialog = "note"
    /\ dialog' = "none"
    /\ \/ UNCHANGED events
       \/ \E note \in Notes :
            events' = IF note = "" THEN events
                      ELSE Append(events, EventRow("NOTE", note, NoSampleId,
                                                   NoCo2, NoCo2))
    /\ UNCHANGED <<staticMode, sampleStep, captureActive, samplePeak,
                   sampleCounter, currentCo2, issued, envVars, driverVars,
                   loopVars, screenVars, storeVars, fluxVars, timelineVars,
                   parseVars, physVars>>

\* Mutant: the counter is read without being advanced.
NextSampleIdSame(counter) == counter

\* self._sample_counter += 1; sample_id = self._sample_counter
NextSampleId(counter) == counter + 1

\* peak_ppm = self._sample_peak_ppm if it is not None else settled_ppm
PeakOrSettled(peak, settled) == IF peak # NoCo2 THEN peak ELSE settled

\* handle_sample_label with a label: the counter advances, a SAMPLE row is
\* saved under the new id, peak capture ends and the step is flush.
LabelSubmit ==
    /\ ~appStopped /\ dialog = "label"
    /\ dialog' = "none"
    /\ sampleCounter' = NextSampleId(sampleCounter)
    /\ \E note \in Notes :
         events' = Append(events,
                          EventRow("SAMPLE", IF note = "" THEN "Sample" ELSE note,
                                   sampleCounter', currentCo2,
                                   PeakOrSettled(samplePeak, currentCo2)))
    /\ issued' = Append(issued, sampleCounter')
    /\ captureActive' = FALSE
    /\ samplePeak' = NoCo2
    /\ sampleStep' = "flush"
    /\ UNCHANGED <<staticMode, currentCo2, envVars, driverVars, loopVars,
                   screenVars, storeVars, fluxVars, timelineVars, parseVars, physVars>>

\* handle_sample_label(None): the label dialog was cancelled.
LabelCancel ==
    /\ ~appStopped /\ dialog = "label"
    /\ dialog' = "none"
    /\ UNCHANGED <<staticMode, sampleStep, captureActive, samplePeak,
                   sampleCounter, currentCo2, events, issued, envVars,
                   driverVars, loopVars, screenVars, storeVars, fluxVars,
                   timelineVars, parseVars, physVars>>

\* action_clear: the confirmation dialog is opened.
ActionClear ==
    /\ ~appStopped /\ dialog = "none"
    /\ dialog' = "confirm"
    /\ UNCHANGED <<staticMode, sampleStep, captureActive, samplePeak,
                   sampleCounter, currentCo2, events, issued, envVars,
                   driverVars, loopVars, screenVars, storeVars, fluxVars,
                   timelineVars, parseVars, physVars>>

\* handle_clear_confirmation: when confirmed, the chart, the statistics, the
\* recorded rows and the flux window are cleared, peak capture ends, and with
\* the mode on the cycle is reset.
HandleClearConfirmation ==
    /\ ~appStopped /\ dialog = "confirm"
    /\ dialog' = "none"
    /\ \E confirmed \in BOOLEAN :
         IF confirmed
         THEN /\ chart' = ClearData(chart)
              /\ clearedAt' = Len(added)
              /\ postedBefore' = Len(chart.posted)
              /\ currentCo2' = NoCo2
              /\ events' = <<>>
              /\ flux' = ClearFlux(flux)
              /\ points' = <<>>
              /\ IF staticMode
                 THEN ResetSampleCycle
                 ELSE /\ captureActive' = FALSE
                      /\ samplePeak' = NoCo2
                      /\ UNCHANGED sampleStep
         ELSE UNCHANGED <<chart, clearedAt, postedBefore, currentCo2, events,
                          flux, points, sampleStep, captureActive, samplePeak>>
    /\ UNCHANGED <<staticMode, sampleCounter, issued, added, handed, saved,
                   result, envVars, driverVars, loopVars, screenVars,
                   timelineVars, parseVars, physVars>>

\* A call of calculate of the physical-flux calculator.
CallFluxCalculate ==
    /\ physResult = NotCalled
    /\ physResult' = FluxCalculate(physTimes, physCo2)
    /\ UNCHANGED <<physTimes, physCo2, envVars, driverVars, loopVars,
                   screenVars, storeVars, fluxVars, timelineVars, parseVars,
                   sampleVars>>

\* A call of _parse_data.
ParseCall ==
    /\ ppc = "call"
    /\ pres' = ParseData(pline, leapYear)
    /\ ppc' = "done"
    /\ UNCHANGED <<envVars, driverVars, pline, loopVars, screenVars,
                   storeVars, fluxVars, timelineVars, sampleVars, physVars>>

\* A call of add_data, in batch mode or not.
CallAddData ==
    /\ Len(added) < MaxAdds
    /\ \E r \in StoreReadings(Len(added) + 1), batch_mode \in BOOLEAN :
         /\ chart' = AddData(chart, r, batch_mode)
         /\ added' = Append(added, r)
         /\ handed' = Append(handed, Aliased(r))
    /\ UNCHANGED <<saved, clearedAt, postedBefore, envVars, driverVars,
                   loopVars, screenVars, fluxVars, timelineVars, parseVars, physVars, sampleVars>>

\* A call of clear_data.
CallClearData ==
    /\ chart' = ClearData(chart)
    /\ clearedAt' = Len(added)
    /\ postedBefore' = Len(chart.posted)
    /\ UNCHANGED <<added, handed, saved, envVars, driverVars, loopVars,
                   screenVars, fluxVars, timelineVars, parseVars, physVars, sampleVars>>

\* An assignment to max_points.
CallSetMaxPoints ==
    /\ \E value \in ViewSpans : chart' = SetMaxPoints(chart, value)
    /\ UNCHANGED <<added, handed, saved, clearedAt, postedBefore, envVars,
                   driverVars, loopVars, screenVars, fluxVars, timelineVars,
                   parseVars, physVars, sampleVars>>

\* A call of next_plot.
CallNextPlot ==
    /\ Len(chart.posted) < MaxPosted
    /\ chart' = NextPlot(chart)
    /\ UNCHANGED <<added, handed, saved, clearedAt, postedBefore, envVars,
                   driverVars, loopVars, screenVars, fluxVars, timelineVars,
                   parseVars, physVars, sampleVars>>

\* A call of prev_plot.
CallPrevPlot ==
    /\ Len(chart.posted) < MaxPosted
    /\ chart' = PrevPlot(chart)
    /\ UNCHANGED <<added, handed, saved, clearedAt, postedBefore, envVars,
                   driverVars, loopVars, screenVars, fluxVars, timelineVars,
                   parseVars, physVars, sampleVars>>

\* A call of FluxCalculator.add_point.
CallAddPoint ==
    /\ Len(points) < MaxFluxAdds
    /\ \E time_s \in FluxTimes, co2_ppm \in FluxValues :
         /\ flux' = AddPoint(flux, time_s, co2_ppm)
         /\ points' = Append(points, <<time_s, co2_ppm>>)
    /\ UNCHANGED <<result, envVars, driverVars, loopVars, screenVars,
                   storeVars, timelineVars, parseVars, physVars, sampleVars>>

\* A call of FluxCalculator.clear.
CallClear ==
    /\ flux' = ClearFlux(flux)
    /\ points' = <<>>
    /\ UNCHANGED <<result, envVars, driverVars, loopVars, screenVars,
                   storeVars, timelineVars, parseVars, physVars, sampleVars>>

\* A call of FluxCalculator.calculate.
CallCalculate ==
    /\ result' = Calculate(flux)
    /\ UNCHANGED <<flux, points, envVars, driverVars, loopVars, screenVars,
                   storeVars, timelineVars, parseVars, physVars, sampleVars>>

\* replot of one plot whose time-axis buffer holds tline.
CallReplot ==
    /\ axis = <<>>
    /\ axis' = Drawn(TRUE, tline, tline).x
    /\ UNCHANGED <<tline, envVars, driverVars, loopVars, screenVars,
                   storeVars, fluxVars, parseVars, physVars, sampleVars>>

\* _restore_session, once, when the screen is mounted on a session to resume.
RestoreSession ==
    /\ added = <<>> /\ clearedAt = -1
    /\ \E rows \in StoredRows :
         /\ added' = Replay(SortedByKey(rows), EmptyDict, 1)
         /\ chart' = Restored(chart, Replay(SortedByKey(rows), EmptyDict, 1))
    /\ handed' = [i \in 1..Len(added') |-> Aliased(added'[i])]
    /\ clearedAt' = 0
    /\ postedBefore' = Len(chart.posted)
    /\ UNCHANGED <<saved, envVars, driverVars, loopVars, screenVars, fluxVars,
                   timelineVars, parseVars, physVars, sampleVars>>

(***************************************************************************)
(* Specifications                                                          *)
(***************************************************************************)

TimelineIdle == tline = <<>> /\ axis = <<>>

ParseIdle ==
    /\ pline = <<>> /\ pres = NoResult /\ ppc = "idle"
    /\ physTimes = <<>> /\ physCo2 = <<>> /\ physResult = NotCalled

\* The read loop and the screen's handlers, over a stream of the instrument
\* and a port that stays listed.
Init ==
    /\ leapYear = FALSE
    /\ portPresent = TRUE
    /\ wire \in Streams
    /\ Constructed
    /\ TimelineIdle
    /\ ParseIdle

Next ==
    \/ Connect
    \/ ConnectFail
    \/ LoopRead
    \/ HandleDataReceived
    \/ HandleSerialError
    \/ ActionPause

Spec == Init /\ [][Next]_vars

\* The decoder alone, over the lines of ParseInputs.
InitParse ==
    /\ leapYear \in BOOLEAN
    /\ portPresent = TRUE
    /\ wire = <<>>
    /\ Constructed
    /\ TimelineIdle
    /\ pline \in ParseInputs /\ pres = NoResult /\ ppc = "call"
    /\ physTimes = <<>> /\ physCo2 = <<>> /\ physResult = NotCalled

NextParse == ParseCall

SpecParse == InitParse /\ [][NextParse]_vars

\* The channel store alone, under calls of its operations.
InitStore ==
    /\ leapYear = FALSE
    /\ portPresent = TRUE
    /\ wire = <<>>
    /\ Constructed
    /\ TimelineIdle
    /\ ParseIdle

NextStore ==
    \/ CallAddData
    \/ CallClearData
    \/ CallSetMaxPoints
    \/ CallNextPlot
    \/ CallPrevPlot

SpecStore == InitStore /\ [][NextStore]_vars

\* The time axis of replot alone, over sequences of elapsed-time values.
InitTimeline ==
    /\ leapYear = FALSE
    /\ portPresent = TRUE
    /\ wire = <<>>
    /\ Constructed
    /\ tline \in UNION {[1..n -> DtValues] : n \in 0..MaxTimeline}
    /\ axis = <<>>
    /\ ParseIdle

NextTimeline == CallReplot

SpecTimeline == InitTimeline /\ [][NextTimeline]_vars

\* The flux window alone, under calls of its operations.
InitFlux ==
    /\ leapYear = FALSE
    /\ portPresent = TRUE
    /\ wire = <<>>
    /\ Constructed
    /\ TimelineIdle
    /\ ParseIdle

NextFlux ==
    \/ CallAddPoint
    \/ CallClear
    \/ CallCalculate

SpecFlux == InitFlux /\ [][NextFlux]_vars

\* The read loop, the screen's handlers and the periodic check, over a port
\* that comes and goes, reads that fail and a transport that closes.
InitLink ==
    /\ leapYear = FALSE
    /\ portPresent \in BOOLEAN
    /\ wire \in LinkStreams
    /\ Constructed
    /\ TimelineIdle
    /\ ParseIdle

NextLink ==
    \/ Connect
    \/ ConnectFail
    \/ LoopRead
    \/ LoopReadFail
    \/ TransportCloses
    \/ LoopExit
    \/ PortChange
    \/ CheckUsbPort
    \/ HandleDataReceived
    \/ HandleSerialError
    \/ ActionPause

SpecLink == InitLink /\ [][NextLink]_vars

\* The controller and the worker that runs its loop alone, read by read,
\* under a caller that disconnects it and starts the worker again.
InitSerial ==
    /\ leapYear = FALSE
    /\ portPresent = TRUE
    /\ wire \in LinkStreams
    /\ Constructed
    /\ TimelineIdle
    /\ ParseIdle

NextSerial ==
    \/ Connect
    \/ ConnectFail
    \/ IssueRead
    \/ ReadReturns
    \/ ReadRaises
    \/ TransportCloses
    \/ LoopExit
    \/ DisconnectFlag
    \/ DisconnectClose
    \/ Restart

SpecSerial == InitSerial /\ [][NextSerial]_vars

\* The same, with a loop that is scheduled and a read that ends: the serial
\* port is opened with a timeout, so every read returns or raises.
SpecSerialFair ==
    SpecSerial /\ WF_vars(LoopExit) /\ WF_vars(ReadReturns)

\* The resume path alone, over the rows of a stored session.
InitRestore ==
    /\ leapYear = FALSE
    /\ portPresent = TRUE
    /\ wire = <<>>
    /\ Constructed
    /\ TimelineIdle
    /\ ParseIdle

NextRestore == RestoreSession

SpecRestore == InitRestore /\ [][NextRestore]_vars

\* The physical-flux calculator alone, over lists of times and of
\* concentrations.
InitPhysical ==
    /\ leapYear = FALSE
    /\ portPresent = TRUE
    /\ wire = <<>>
    /\ Constructed
    /\ TimelineIdle
    /\ pline = <<>> /\ pres = NoResult /\ ppc = "idle"
    /\ physTimes \in UNION {[1..n -> FluxTimes] : n \in 0..MaxFluxInputs}
    /\ physCo2 \in UNION {[1..n -> FluxValues] : n \in 0..MaxFluxInputs}
    /\ physResult = NotCalled

NextPhysical == CallFluxCalculate

SpecPhysical == InitPhysical /\ [][NextPhysical]_vars

\* The static-sampling workflow of the screen, under its key bindings, the
\* dialogs they open and the Readings of one measurement on the wire. While
\* a dialog is open the keys go to the dialog, not to the screen below it.
SampleStreams == { HeaderOnlyFrame \o <<CR>> }

InitSample ==
    /\ leapYear = FALSE
    /\ portPresent = TRUE
    /\ wire \in SampleStreams
    /\ Constructed
    /\ TimelineIdle
    /\ ParseIdle

NextSample ==
    \/ Connect
    \/ LoopRead
    \/ HandleDataReceived
    \/ ActionToggleStaticMode
    \/ ActionResetStaticCycle
    \/ ActionAddNote
    \/ HandleNote
    \/ LabelSubmit
    \/ LabelCancel
    \/ ActionClear
    \/ HandleClearConfirmation

SpecSample == InitSample /\ [][NextSample]_vars

(***************************************************************************)
(* Properties                                                              *)
(***************************************************************************)

\* The frames of a text that a carriage return ends, and what follows the
\* last carriage return.
CompleteFrames(text) ==
    SubSeq(SplitAll(text, CR), 1, Len(SplitAll(text, CR)) - 1)

TailOf(text) == SplitAll(text, CR)[Len(SplitAll(text, CR))]

NotBlank(f) == Strip(f) # <<>>

StrippedAll(frames) == [i \in 1..Len(frames) |-> Strip(frames[i])]

\* The frames of a text in arrival order, as the loop is to emit them.
Arrived(text) == StrippedAll(SelectSeq(CompleteFrames(text), NotBlank))

RECURSIVE Flatten(_)
Flatten(ss) == IF ss = <<>> THEN <<>> ELSE Head(ss) \o Flatten(Tail(ss))

\* str.encode('utf-8') on the modelled alphabet.
RECURSIVE Utf8Encode(_)
Utf8Encode(t) ==
    IF t = <<>> THEN <<>>
    ELSE IF Head(t) = EAcute THEN <<LeadByte, ContByte>> \o Utf8Encode(Tail(t))
    ELSE <<Head(t)>> \o Utf8Encode(Tail(t))

\* The whole of a byte stream fed to the splitter as one chunk.
OneChunk(bytes, leap) == DrainBuffer(Utf8DecodeIgnore(bytes), <<>>, leap)

\* C1 (as claimed): chunking invariance. Whatever chunks the reads returned,
\* the (record, Reading) pairs emitted so far are those that feeding the
\* same bytes as one chunk emits.
C1_ChunkingInvariance ==
    dispatched = OneChunk(fedBytes, leapYear).out

\* The bytes of a stream that are neither carriage returns nor the
\* whitespace strip() removes.
Payload(bytes) == SelectSeq(bytes, LAMBDA b : b # CR /\ b \notin Whitespace)

\* C2 (as claimed): no frame is emitted twice and no byte is dropped but the
\* carriage return. After any sequence of chunks there are no more emitted
\* frames than carriage returns read, and the emitted frames followed by the
\* buffer hold every byte read, the carriage returns apart; the whitespace
\* that strip() takes from a frame is left out of the comparison.
C2_NoByteDropped ==
    /\ Len(dispatched) <= Len(CompleteFrames(fedBytes))
    /\ Payload(Utf8Encode(Flatten(RawLines(dispatched)) \o buffer)) =
         Payload(fedBytes)

\* The splitter over the text the chunks decoded to: the frames emitted are,
\* once each and in order, the frames a carriage return ended that are not
\* blank, each stripped, and the buffer is the text after the last carriage
\* return.
SplitterConservation ==
    /\ RawLines(dispatched) = Arrived(fedText)
    /\ buffer = TailOf(fedText)

DataSeqs(q) == SelectSeq(q, LAMBDA m : m.kind = "data")

Increasing(q) == \A i \in 1..Len(q) : \A j \in 1..Len(q) : i < j => q[i].seq < q[j].seq

\* C3: the handler sees Readings in frame arrival order. The messages it
\* has acted on and then those waiting in the queue carry ever greater
\* frame numbers, and the message numbered n is the record and the Reading
\* of the n-th frame that arrived.
C3_FifoDelivery ==
    /\ Increasing(observed \o DataSeqs(mq))
    /\ \A i \in 1..Len(observed \o DataSeqs(mq)) :
         /\ (observed \o DataSeqs(mq))[i].seq \in 1..Len(Arrived(fedText))
         /\ (observed \o DataSeqs(mq))[i].raw =
              Arrived(fedText)[(observed \o DataSeqs(mq))[i].seq]
         /\ (observed \o DataSeqs(mq))[i].parsed =
              dispatched[(observed \o DataSeqs(mq))[i].seq].parsed

\* C3: the handler has acted on the Readings of the first and the second
\* frame, two different frames, in that order.
C3_Witness ==
    /\ Len(observed) >= 2
    /\ observed[1].seq = 1 /\ observed[2].seq = 2
    /\ observed[1].raw # observed[2].raw

\* A measurement line whose fixed header int() cannot read.
HeaderFails(line) ==
    /\ Len(line) >= MinHeaderLen
    /\ line[1] \in {"R", "M"}
    /\ \E i \in 1..Len(HeaderFields) : ~HeaderValue(line, HeaderFields[i]).ok

\* C4: decoding never raises. Every call of _parse_data returns a Reading
\* that has a kind, and a header that cannot be read shows as the error
\* flag on it, with the raw line.
C4_DecodeNeverRaises ==
    ppc = "done" =>
      /\ ~pres.exc
      /\ Has(pres.data, "type")
      /\ HeaderFails(pline) =>
           /\ Has(pres.data, "error")
           /\ Has(pres.data, "raw") /\ pres.data["raw"] = pline

\* C4: a line with an unreadable header was decoded to a flagged Reading.
C4_Witness ==
    /\ ppc = "done"
    /\ HeaderFails(pline)
    /\ Has(pres.data, "error")

\* A frame the decoder has no Reading for: a measurement that is too short
\* or has an unreadable header, or a first character of no record kind.
Malformed(line) ==
    \/ HeaderFails(line)
    \/ line[1] \in {"R", "M"} /\ Len(line) < MinHeaderLen
    \/ line[1] \notin {"R", "M", "B", "W", "Z"}

WellFormed(line) == ~Malformed(line)

Clean(d) ==
    /\ WellFormed(d.raw)
    /\ ~Has(d.parsed, "error")
    /\ d.parsed["type"] # "unknown"

C6_ShortMeasurementUnknown ==
    (ppc = "done" /\ pline # <<>> /\ pline[1] \in {"R", "M"}
       /\ Len(pline) < MinHeaderLen) =>
      /\ ~pres.exc
      /\ DOMAIN pres.data = {"type", "raw"}
      /\ pres.data["type"] = "unknown"
      /\ pres.data["raw"] = pline

\* C6: a 19-character R line was decoded.
C6_Witness ==
    /\ ppc = "done"
    /\ Len(pline) = MinHeaderLen - 1
    /\ pline[1] = "R"
    /\ pres.data["type"] = "unknown"

MeasurementLine(line) ==
    Len(line) >= MinHeaderLen /\ line[1] \in {"R", "M"}

FailingHeaderFields(line) ==
    {i \in 1..Len(HeaderFields) : ~HeaderValue(line, HeaderFields[i]).ok}

\* C7 (as claimed): per-field defaults in the fixed header. When exactly
\* one header field is no number, the Reading has that field as 0, every
\* other header field with its value, and the probe type.
C7_HeaderFieldDefaults ==
    (ppc = "done" /\ MeasurementLine(pline)
       /\ Cardinality(FailingHeaderFields(pline)) = 1) =>
      /\ \A i \in 1..Len(HeaderFields) :
           /\ Has(pres.data, HeaderFields[i].key)
           /\ pres.data[HeaderFields[i].key] =
                ValueOrZero(HeaderValue(pline, HeaderFields[i]))
      /\ Has(pres.data, "probe_type")
      /\ pres.data["probe_type"] = Num(ProbeTypeOf(pline), 1)

\* The 4-character window that ends k characters before the end of a line.
WindowFromEnd(line, k) ==
    SubSeq(line, Len(line) - k - 3, Len(line) - k)

\* C8: for probe type 8 the analytic fields are the windows counted from
\* the end of the line: pressure in the 4 characters before the probe code,
\* then rate / 100, elapsed time and delta-CO2 in the windows 8, 12 and 16
\* characters further left; and the record of the tests decodes to kind R,
\* probe type 8, CO2 429, pressure 965, elapsed time 0, delta-CO2 0.
C8_SrcFieldsFromEnd ==
    (ppc = "done" /\ MeasurementLine(pline) /\ ~HeaderFails(pline)
       /\ ProbeTypeOf(pline) = SrcProbeType /\ Len(pline) >= 22) =>
      /\ pres.data["atmp"] = ValueOrZero(PyInt(WindowFromEnd(pline, 2)))
      /\ pres.data["sr"] =
           ValueOrZero(DividedBy(PyFloat(WindowFromEnd(pline, 10)), 100))
      /\ pres.data["dt"] = ValueOrZero(PyInt(WindowFromEnd(pline, 14)))
      /\ pres.data["dc"] = ValueOrZero(PyInt(WindowFromEnd(pline, 18)))
      /\ pline = SrcFrame =>
           /\ pres.data["type"] = "R"
           /\ pres.data["probe_type"] = Num(8, 1)
           /\ pres.data["co2_ppm"] = Num(429, 1)
           /\ pres.data["atmp"] = Num(965, 1)
           /\ pres.data["dt"] = Num(0, 1)
           /\ pres.data["dc"] = Num(0, 1)

\* C8: the record of the tests was decoded and its pressure read from the
\* end of the line.
C8_Witness ==
    /\ ppc = "done"
    /\ pline = SrcFrame
    /\ pres.data["atmp"] = Num(965, 1)

\* C9 (as claimed): a measurement of another probe type than 8 has the
\* pressure atmp too, read from the 4 characters before the probe code; the
\* record of the tests decodes to kind M, probe type 0, atmp 995.
C9_NonSrcAtmp ==
    (ppc = "done" /\ pline = NonSrcFrame) =>
      /\ pres.data["type"] = "M"
      /\ pres.data["probe_type"] = Num(0, 1)
      /\ Has(pres.data, "atmp")
      /\ NumEq(pres.data["atmp"], Num(995, 1))

\* C10 (as claimed): the probe-type-11 record of the tests decodes to the
\* signed rate sr = -4.56 with sr_mag = 4.56, and to the pressure 9876 read
\* from the end of the line.
C10_Type11SignedSr ==
    (ppc = "done" /\ pline = Type11Frame) =>
      /\ pres.data["probe_type"] = Num(11, 1)
      /\ NumEq(pres.data["sr_mag"], Num(456, 100))
      /\ Has(pres.data, "sr")
      /\ NumEq(pres.data["sr"], Num(-456, 100))
      /\ Has(pres.data, "atmp")
      /\ NumEq(pres.data["atmp"], Num(9876, 1))

\* The value float() gives the payload after the first comma of a line, 0
\* when it gives none.
PayloadNumber(line) ==
    ValueOrZero(PyFloat(Strip(RemoveChar(SplitAll(line, ",")[2], "+"))))

RecordKinds == {"R", "M", "B", "W", "Z"}

\* C11 (as claimed): a frame that is no measurement and starts with any
\* other character than W or Z decodes to kind unknown with the raw text.
C11_OtherFirstCharUnknown ==
    (ppc = "done" /\ pline # <<>> /\ pline[1] \notin {"R", "M", "W", "Z"}) =>
      /\ pres.data["type"] = "unknown"
      /\ Has(pres.data, "raw") /\ pres.data["raw"] = pline

\* C11 (amended): frames that are no measurements are classified by their
\* first character and comma payload. W is a warmup whose temperature is the
\* payload, 'W,+54' giving 54.0; Z with a comma is a zero check whose
\* countdown is the payload, 'Z,+10' giving 10.0; a Z without comma is the
\* end of a dump; B is the startup banner of kind B; and a frame that is
\* empty or starts with a character other than R, M, B, W, Z is of kind
\* unknown and holds the raw text and nothing else.
C11_NonMeasurementKinds ==
    (ppc = "done" /\ ~pres.exc) =>
      /\ (pline # <<>> /\ pline[1] = "W") =>
           /\ pres.data["type"] = "W"
           /\ Contains(pline, ",") =>
                /\ DOMAIN pres.data = {"type", "warmup_temp"}
                /\ pres.data["warmup_temp"] = PayloadNumber(pline)
      /\ (pline # <<>> /\ pline[1] = "Z" /\ Contains(pline, ",")) =>
           /\ DOMAIN pres.data = {"type", "zero_countdown"}
           /\ pres.data["type"] = "Z"
           /\ pres.data["zero_countdown"] = PayloadNumber(pline)
      /\ (pline # <<>> /\ pline[1] = "Z" /\ ~Contains(pline, ",")) =>
           pres.data = Put(EmptyDict, "type", "Z_END")
      /\ (pline # <<>> /\ pline[1] = "B") => pres.data["type"] = "B"
      /\ (pline = <<>> \/ pline[1] \notin RecordKinds) =>
           /\ DOMAIN pres.data = {"type", "raw"}
           /\ pres.data["type"] = "unknown"
           /\ pres.data["raw"] = pline
      /\ pline = <<"W", ",", "+", "5", "4">> =>
           NumEq(pres.data["warmup_temp"], Num(54, 1))
      /\ pline = <<"Z", ",", "+", "1", "0">> =>
           NumEq(pres.data["zero_countdown"], Num(10, 1))
      /\ pline = <<"Z">> => pres.data["type"] = "Z_END"

\* C11: the zero check 'Z,+10' of the tests was decoded to its countdown.
C11_Witness ==
    /\ ppc = "done"
    /\ pline = <<"Z", ",", "+", "1", "0">>
    /\ pres.data["type"] = "Z"
    /\ NumEq(pres.data["zero_countdown"], Num(10, 1))

\* The probe-type codes the registry has a layout of its own for.
SpecificCodes == {1, 2, 3, 7, 8, 11}

\* The five auxiliary channels, as read from their 4-character fields.
AuxChannels(line) ==
    [k \in {"aux1", "aux2", "aux3", "aux4", "aux5"} |->
       ValueOrZero(PyInt(Slice(line,
         CASE k = "aux1" -> 30 [] k = "aux2" -> 34 [] k = "aux3" -> 38
           [] k = "aux4" -> 42 [] OTHER -> 46,
         CASE k = "aux1" -> 34 [] k = "aux2" -> 38 [] k = "aux3" -> 42
           [] k = "aux4" -> 46 [] OTHER -> 50)))]

\* The keys a measurement Reading has whatever the probe type.
CommonKeys ==
    {"type", "plot", "record", "day", "month", "hour", "minute", "co2_ppm",
     "h2o", "rht", "probe_type", "device_timestamp"}

\* C12: a measurement frame with a readable header, long enough for the five
\* fields, whose trailing code is not in the registry or is no number, is
\* decoded with the generic layout: aux1..aux5 hold the five fields after
\* the header, no field of another layout is set, and there is no error flag.
C12_GenericFallback ==
    (ppc = "done" /\ MeasurementLine(pline) /\ ~HeaderFails(pline)
       /\ Len(pline) >= 50 /\ ProbeTypeOf(pline) \notin SpecificCodes) =>
      /\ ~pres.exc
      /\ ~Has(pres.data, "error")
      /\ DOMAIN pres.data = CommonKeys \cup DOMAIN AuxChannels(pline)
      /\ \A k \in DOMAIN AuxChannels(pline) :
           pres.data[k] = AuxChannels(pline)[k]

\* C12: a frame with a code the registry does not hold (a number other than
\* 0) was decoded, and one of its auxiliary channels is not zero.
C12_Witness ==
    /\ ppc = "done"
    /\ MeasurementLine(pline) /\ ~HeaderFails(pline) /\ Len(pline) >= 50
    /\ PyInt(SliceFrom(pline, -2)).ok
    /\ ProbeTypeOf(pline) \notin SpecificCodes \cup {0}
    /\ Has(pres.data, "aux1") /\ ~NumEq(pres.data["aux1"], Num(0, 1))

\* The Readings given to add_data since the last clear_data.
SinceClear ==
    SubSeq(added, (IF clearedAt < 0 THEN 0 ELSE clearedAt) + 1, Len(added))

\* Those of them that are of plot p.
ReadingsOf(p) == SelectSeq(SinceClear, LAMBDA r : PlotOf(r) = p)

\* The last n elements of a sequence, in their order.
LastN(s, n) == IF Len(s) > n THEN SubSeq(s, Len(s) - n + 1, Len(s)) ELSE s

Concentrations(rs) == [i \in 1..Len(rs) |-> FloatOf(rs[i]["co2_ppm"])]

\* C13: no channel buffer and no time-axis buffer of a plot holds more than
\* BufferSize values, and the CO2 buffer of a plot holds the concentrations
\* of the last BufferSize Readings of that plot, in the order they were added:
\* with BufferSize + 1 Readings the first one is gone. The time-axis buffer
\* has one value for each of them.
C13_RingBufferBound ==
    \A p \in DOMAIN chart.plot_data :
      /\ \A k \in DOMAIN chart.plot_data[p] : Len(chart.plot_data[p][k]) <= BufferSize
      /\ p \in DOMAIN chart.plot_dt
      /\ Len(chart.plot_dt[p]) <= BufferSize
      /\ chart.plot_data[p]["cr"] = LastN(Concentrations(ReadingsOf(p)), BufferSize)
      /\ Len(chart.plot_dt[p]) = Len(LastN(ReadingsOf(p), BufferSize))

\* C13: a plot has been given BufferSize + 1 Readings; its CO2 buffer starts
\* with the concentration of the second one.
C13_Witness ==
    \E p \in DOMAIN chart.plot_data :
      /\ Len(ReadingsOf(p)) = BufferSize + 1
      /\ Len(chart.plot_data[p]["cr"]) = BufferSize
      /\ chart.plot_data[p]["cr"][1] = FloatOf(ReadingsOf(p)[2]["co2_ppm"])
      /\ chart.plot_data[p]["cr"][1] # FloatOf(ReadingsOf(p)[1]["co2_ppm"])

\* The time axis of tline has been drawn from its values: there are at least
\* two, and not all are zero (for zeros alone replot draws sample numbers).
AxisDrawn ==
    /\ axis # <<>>
    /\ \E i \in 1..Len(tline) : tline[i] # 0

\* What the axis has added to the i-th time value.
OffsetAt(i) == axis[i] - tline[i]

\* The i-th time value is below the one before it.
DropAt(i) == tline[i] < tline[i - 1]

\* The i-th time value is more than 5 below the one before it.
SessionAt(i) == tline[i] < tline[i - 1] - 5

\* C14 as stated: the axis never decreases, and it jumps up by the previous
\* value plus the gap of 5 exactly where the time value dropped.
C14_JumpAtEveryDrop ==
    AxisDrawn =>
      /\ Len(axis) = Len(tline)
      /\ OffsetAt(1) = 0
      /\ \A i \in 2..Len(tline) :
           /\ axis[i] >= axis[i - 1]
           /\ OffsetAt(i) - OffsetAt(i - 1) =
                IF DropAt(i) THEN tline[i - 1] + 5 ELSE 0

\* C14: the axis jumps up by the previous value plus the gap of 5 exactly
\* where the time value dropped by more than 5, and nowhere else; it never
\* decreases when every drop of the time values is one of more than 5; and
\* for 0, 5, 10, 3, 8 it is 0, 5, 10, 18, 23, with its one jump at the 3.
C14_JumpAtDropOverTolerance ==
    AxisDrawn =>
      /\ Len(axis) = Len(tline)
      /\ OffsetAt(1) = 0
      /\ \A i \in 2..Len(tline) :
           OffsetAt(i) - OffsetAt(i - 1) =
             IF SessionAt(i) THEN tline[i - 1] + 5 ELSE 0
      /\ (\A i \in 2..Len(tline) : DropAt(i) => SessionAt(i)) =>
           \A i \in 2..Len(tline) : axis[i] >= axis[i - 1]
      /\ tline = <<0, 5, 10, 3, 8>> => axis = <<0, 5, 10, 18, 23>>

\* C14: the axis of 0, 5, 10, 3, 8 has been drawn.
C14_Witness ==
    /\ tline = <<0, 5, 10, 3, 8>>
    /\ axis = <<0, 5, 10, 18, 23>>

\* What a window of n values shows of a channel: its last n values, or
\* nothing when that is fewer than two.
Shown(full, n) == IF Len(LastN(full, n)) >= 2 THEN LastN(full, n) ELSE <<>>

\* C15: a step that changes max_points leaves every channel buffer and every
\* time-axis buffer as it was, and the window then shows the last max_points
\* values of what is stored, those a narrower window had hidden among them.
C15_NonDestructiveZoom ==
    [][chart'.max_points # chart.max_points =>
         /\ chart'.plot_data = chart.plot_data
         /\ chart'.plot_dt = chart.plot_dt
         /\ chart'.shown.y =
              Shown(FullData(chart, chart'.active_channel), chart'.max_points)]_vars

\* C15: the window is 3 values wide and shows 3 stored values of the two
\* plots together.
C15_Witness ==
    /\ chart.max_points = 3
    /\ chart.filter_plot = NoPlot
    /\ Len(FullData(chart, "cr")) >= 3
    /\ Len(chart.shown.y) = 3

\* The Reading a step gives to add_data.
NewReading == added'[Len(added')]

\* A step that gives a Reading to add_data right after clear_data.
AddAfterClear ==
    /\ clearedAt >= 0
    /\ Len(added) = clearedAt
    /\ Len(added') = Len(added) + 1

\* What tells two stores apart: the buffers, the time axes, the plots known,
\* the probe type of every plot, the current elapsed time, and the
\* ProbeTypeChanged messages posted, of store c those after the first n.
SameStore(c, n, f) ==
    /\ c.plot_data = f.plot_data
    /\ c.plot_dt = f.plot_dt
    /\ c.known_plots = f.known_plots
    /\ c.plot_probe_types = f.plot_probe_types
    /\ c.current_dt = f.current_dt
    /\ SubSeq(c.posted, n + 1, Len(c.posted)) = f.posted

\* C16: the store after clear_data and one Reading cannot be told from a new
\* store that was given that Reading alone.
C16_ClearThenAddIsFresh ==
    [][AddAfterClear =>
         SameStore(chart', postedBefore, AddData(NewChart, NewReading, TRUE))]_vars

\* The times and the concentrations given to add_point since the last clear.
TimesOf(ps) == [i \in 1..Len(ps) |-> ps[i][1]]

ValuesOf(ps) == [i \in 1..Len(ps) |-> ps[i][2]]

\* C17: the window holds at most WindowSize pairs, its two lists are equally
\* long, and they hold the last WindowSize pairs given to add_point since the
\* last clear, in the order they were given.
C17_FluxWindowBound ==
    /\ Len(flux.times) <= WindowSize
    /\ Len(flux.times) = Len(flux.co2)
    /\ flux.times = LastN(TimesOf(points), WindowSize)
    /\ flux.co2 = LastN(ValuesOf(points), WindowSize)

\* C17: one pair more than the window holds has been given; the first one is
\* gone and the second one is the oldest of the window.
C17_Witness ==
    /\ Len(points) = WindowSize + 1
    /\ points[1] # points[2]
    /\ Len(flux.times) = WindowSize
    /\ <<flux.times[1], flux.co2[1]>> = points[2]

\* The window has fewer than two points, or all its points have one time.
Degenerate(f) ==
    \/ Len(f.times) < 2
    \/ \A i \in 1..Len(f.times) : f.times[i] = f.times[1]

\* C18: calculate on a window with fewer than two points, or with points of
\* one time only, returns slope 0, intercept 0, r-squared 0 and the number of
\* points of the window. (A step that leaves the window and the history of
\* its points as they were is a call of calculate.)
C18_RegressionDegeneracy ==
    [][(UNCHANGED <<flux, points>> /\ Degenerate(flux)) =>
         result' = RegressionResult(Zero, Zero, Zero, Len(flux.times))]_vars

\* C18: calculate has returned the zero result for a window of two or more
\* points that have one time and different concentrations.
C18_Witness ==
    /\ Len(flux.times) >= 2
    /\ \A i \in 1..Len(flux.times) : flux.times[i] = flux.times[1]
    /\ \E i \in 1..Len(flux.co2) : flux.co2[i] # flux.co2[1]
    /\ result = RegressionResult(Zero, Zero, Zero, Len(flux.times))

C20_RestartOnReconnect ==
    [][(~appStopped /\ portPresent /\ ~isConnected /\ isConnected'
          /\ worker = "ended") =>
         worker' = "start"]_vars

ErrorsIn(q) == Len(SelectSeq(q, LAMBDA m : m.kind = "error"))

InLoop == worker \in {"loop", "read"}

\* C22: disconnect clears running and leaves the transport as it is, and
\* closes the transport in a later step; while running is cleared the loop
\* issues no read and posts no SerialError, the only place it goes from the
\* test of its while is its end, and it does leave: it ends, or the worker is
\* replaced by one started again.
C22_Cancellation ==
    /\ [][(teardown = "no" /\ teardown' = "flag")
            => (~running' /\ isOpen' = isOpen)]_vars
    /\ [][(teardown = "flag" /\ teardown' = "no")
            => (~isOpen' /\ running' = running)]_vars
    /\ [][~running => ~(worker = "loop" /\ worker' = "read")]_vars
    /\ [][(~running /\ InLoop) => ErrorsIn(mq') = ErrorsIn(mq)]_vars
    /\ [][(~running /\ worker = "loop" /\ worker' # "loop")
            => worker' \in {"ended", "start"}]_vars
    /\ ((~running /\ InLoop) ~> (worker \in {"ended", "start"}))

\* The loop has ended after a disconnect in the middle of the stream, and no
\* SerialError was posted.
C22_Witness ==
    /\ worker = "ended" /\ ~running /\ ~isOpen /\ teardown = "no"
    /\ fedBytes # <<>> /\ wire # <<>>
    /\ ErrorsIn(mq) = 0

\* C26: a read that fails while running is reported once and tried again:
\* the step posts one SerialError and emits nothing, leaves the buffer, the
\* flag and the transport as they were and returns to the test of the while;
\* and at all times the frames emitted are the frames of the whole text read,
\* so a frame that a failure cut in two is emitted whole.
C26_ReadFailureRetried ==
    /\ [][Len(tails') = Len(tails) + 1
            => /\ ErrorsIn(mq') = ErrorsIn(mq) + 1
               /\ Len(mq') = Len(mq) + 1
               /\ buffer' = buffer /\ dispatched' = dispatched
               /\ running' /\ isOpen' = isOpen
               /\ worker' = "loop"]_vars
    /\ []SplitterConservation

\* A read failed when the buffer held the first byte of a frame, and the
\* frame has been emitted since.
C26_Witness ==
    /\ tails = << <<"Z">> >>
    /\ wire = <<>>
    /\ dispatched # <<>>
    /\ dispatched[Len(dispatched)].raw = <<"Z">>

Handled == Len(observed') = Len(observed) + 1

\* parsed.get('error') or rec_type == 'unknown'
Flagged(parsed) == Has(parsed, "error") \/ parsed["type"] = "unknown"

\* C30: the handler counts a Reading that has the error flag or is of
\* unknown type without raising: no step in which it acts on such a Reading
\* ends in an exception.
C30_ParseErrorCounted ==
    [][(Handled /\ Flagged(Head(mq).parsed)) => appError' = appError]_vars

\* The handler has acted on a Reading of unknown type.
C30_Witness ==
    /\ observed # <<>>
    /\ Flagged(observed[Len(observed)].parsed)

IsMeasurement(x) == x.parsed["type"] \in {"R", "M"}

\* Every Reading emitted so far has been handled, and every measurement
\* among them is in the channel store and in the flux window.
Applied ==
    /\ \A i \in 1..Len(mq) : mq[i].kind # "data"
    /\ Len(added) = Len(SelectSeq(dispatched, IsMeasurement))
    /\ Len(points) = Len(SelectSeq(dispatched, IsMeasurement))

\* C25: the Readings of a read are applied before the next read: at every
\* step that reads bytes, every Reading emitted by the reads before has been
\* handled and applied.
C25_AppliedBeforeNextRead ==
    [][fedBytes' # fedBytes => Applied]_vars

\* A measurement waits in the queue while the loop can read on.
C25_Witness ==
    /\ worker = "loop" /\ running /\ isOpen /\ wire # <<>>
    /\ \E i \in 1..Len(mq) : mq[i].kind = "data" /\ IsMeasurement(mq[i])

\* C23: whatever becomes of the insert that save_reading_worker starts, the
\* Reading is added to the channel store and to the flux window: every
\* measurement the handler has acted on is in both.
C23_PersistenceIsolated ==
    /\ Len(added) = Len(SelectSeq(observed, IsMeasurement))
    /\ Len(points) = Len(SelectSeq(observed, IsMeasurement))

\* The handler has acted on a measurement.
C23_Witness ==
    /\ observed # <<>>
    /\ IsMeasurement(observed[Len(observed)])

\* C27: the channel store leaves the Reading it is given as the decoder
\* returned it: after every call of add_data the Reading has the keys and
\* values it had before the call.
C27_ReadingNotMutated ==
    \A i \in 1..Len(added) : handed[i] = added[i]

\* add_data has been given a Reading with a concentration.
C27_Witness ==
    /\ added # <<>>
    /\ Has(added[Len(added)], "co2_ppm")
    /\ Len(handed) = Len(added)

\* The buffers of plot q are in c2 what they are in c1; keys that plot q has
\* only in c2 have empty buffers.
SamePlot(c1, c2, q) ==
    /\ q \in DOMAIN c2.plot_data /\ q \in DOMAIN c2.plot_dt
    /\ c2.plot_dt[q] = c1.plot_dt[q]
    /\ DOMAIN c1.plot_data[q] \subseteq DOMAIN c2.plot_data[q]
    /\ \A k \in DOMAIN c2.plot_data[q] :
         c2.plot_data[q][k] = IF k \in DOMAIN c1.plot_data[q]
                              THEN c1.plot_data[q][k] ELSE <<>>

\* C28: add_data for a Reading of plot p leaves the samples and the time
\* axis of every other plot as they were.
C28_OtherPlotsUntouched ==
    [][Len(added') = Len(added) + 1
         => \A q \in DOMAIN chart.plot_data \ {PlotOf(added'[Len(added')])} :
              SamePlot(chart, chart', q)]_vars

\* Two plots hold samples, and the last Reading added is of plot 2.
C28_Witness ==
    /\ DOMAIN chart.plot_dt = {1, 2}
    /\ chart.plot_dt[1] # <<>> /\ chart.plot_dt[2] # <<>>
    /\ added # <<>> /\ PlotOf(added[Len(added)]) = 2
    /\ clearedAt < Len(added) - 1

PlotAt(i) == added[i]["plot"].num

DtAt(i) == added[i]["dt"].num

\* C29: the rows of a resumed session are replayed in ascending order of
\* (plot, elapsed time), whatever order the store returned them in: of two
\* Readings replayed, the later is of a greater plot, or of the same plot
\* with an elapsed time that is not smaller.
C29_ReplaySorted ==
    \A i \in 1..Len(added) : \A j \in 1..Len(added) :
       i < j => \/ PlotAt(i) < PlotAt(j)
                \/ PlotAt(i) = PlotAt(j) /\ DtAt(i) <= DtAt(j)

\* A session of three rows of one plot has been replayed.
C29_Witness ==
    /\ clearedAt = 0 /\ Len(added) = 3
    /\ PlotAt(1) = PlotAt(3)
    /\ chart.plot_dt[PlotAt(1)] # <<>>

\* C32: for every plot, the time axis and each channel buffer have the same
\* length, so the values at one index are of one Reading.
C32_BuffersAligned ==
    \A p \in DOMAIN chart.plot_data :
       \A k \in DOMAIN chart.plot_data[p] :
          Len(chart.plot_data[p][k]) = Len(chart.plot_dt[p])

\* A plot has received a Reading of a probe type other than the one it was
\* created under.
C32_Witness ==
    /\ Len(added) >= 2 /\ clearedAt = -1
    /\ PlotOf(added[1]) = PlotOf(added[2])
    /\ ProbeOf(added[1]) # ProbeOf(added[2])

\* C33: every plot has a buffer for every key of the active configuration,
\* and add_data does not fail for want of one.
C33_BuffersForActiveConfig ==
    /\ ~chart.raised
    /\ \A p \in DOMAIN chart.plot_data :
          KeySet(chart.channels_config) \subseteq DOMAIN chart.plot_data[p]

\* The plot shown was changed between two calls of add_data.
C33_Witness ==
    /\ Len(added) >= 2 /\ clearedAt = -1
    /\ chart.posted # <<>>
    /\ Cardinality(DOMAIN chart.plot_data) = 2

\* C36: a chunk that a read returns after running was cleared is not decoded
\* and dispatched: while running is clear the loop emits no frame.
C36_NoDispatchAfterDisconnect ==
    [][(~running /\ InLoop) => dispatched' = dispatched]_vars

\* disconnect has cleared running and closed the transport while a read was
\* in flight and bytes were still to come.
C36_Witness ==
    /\ worker = "read" /\ ~running /\ ~isOpen /\ teardown = "no"
    /\ wire # <<>>

\* The windows of the probe-type-8 fields, as the indices of the slices.
SrcWindows ==
    << [key |-> "atmp", from |-> -6, to |-> -2],
       [key |-> "sr", from |-> -14, to |-> -10],
       [key |-> "dt", from |-> -18, to |-> -14],
       [key |-> "dc", from |-> -22, to |-> -18] >>

\* C40: a probe-type-8 field never takes its value from the fixed header:
\* for every measurement line decoded, each of the four windows that is not
\* empty starts at or after the end of the header.
C40_SrcWindowsPastHeader ==
    (ppc = "done" /\ MeasurementLine(pline) /\ ~HeaderFails(pline)
       /\ ProbeTypeOf(pline) = SrcProbeType) =>
      \A i \in 1..Len(SrcWindows) :
         /\ Has(pres.data, SrcWindows[i].key)
         /\ Slice(pline, SrcWindows[i].from, SrcWindows[i].to) # <<>>
              => Clamp(SrcWindows[i].from, Len(pline)) >= MinHeaderLen

\* A record of 22 characters with probe code 08 has been decoded, and its
\* elapsed time is a number read from the record number and the day.
C40_Witness ==
    /\ ppc = "done" /\ Len(pline) = 22
    /\ ProbeTypeOf(pline) = SrcProbeType
    /\ Has(pres.data, "dt") /\ pres.data["dt"] = Num(11, 1)

C34_PausedReadingDropped ==
    /\ [][(isPaused /\ mq # <<>> /\ Head(mq).kind = "data" /\ mq' = Tail(mq))
            => UNCHANGED <<observed, storeVars, fluxVars, samplePeak,
                           currentCo2, appError, appStopped>>]_vars
    /\ [][isPaused' # isPaused
            => UNCHANGED <<mq, observed, storeVars, fluxVars, samplePeak,
                           currentCo2>>]_vars

\* A Reading was dispatched during a pause and the handler has taken it:
\* nothing waits, nothing was acted on, nothing was raised.
C34_Witness ==
    /\ isPaused /\ dispatched # <<>> /\ mq = <<>>
    /\ observed = <<>> /\ ~appError

\* C38: after any sequence of toggle, note, label-submit, label-cancel,
\* reset, clear and data events, the workflow step is idle exactly when
\* static sampling mode is off, and peak capture is active only while the
\* step is settle.
C38_SampleStateInvariant ==
    /\ (sampleStep = "idle") <=> ~staticMode
    /\ captureActive => sampleStep = "settle"

\* A second cycle is waiting at settle with capture active, after a sample
\* was recorded and a Reading was handled.
C38_Witness ==
    /\ staticMode /\ sampleStep = "settle" /\ captureActive
    /\ issued # <<>> /\ observed # <<>>

\* The order in which action_add_note moves the step.
StepOrder ==
    { <<"inject", "settle">>, <<"settle", "flush">>, <<"flush", "inject">> }

\* A SAMPLE row joins the recorded rows.
SampleRecorded ==
    /\ Len(events') = Len(events) + 1
    /\ events'[Len(events')].type = "SAMPLE"

\* C39, as stated: while the mode stays on, every change of the step is one
\* of inject -> settle, settle -> flush, flush -> inject.
C39_StepOnlyAdvances ==
    [][(staticMode /\ staticMode' /\ sampleStep' # sampleStep)
         => <<sampleStep, sampleStep'>> \in StepOrder]_vars

\* C39: while the mode stays on, a change of the step either follows the
\* order inject -> settle -> flush -> inject or returns to inject (a reset of
\* the cycle, or a confirmed clear); a SAMPLE row is recorded only in a
\* step from settle to flush; a label dialog that closes without a row
\* leaves the step at settle and the counter alone; and the ids of the
\* SAMPLE rows recorded are 1, 2, 3, ... in the order of recording.
C39_SampleOrdering ==
    /\ [][(staticMode /\ staticMode' /\ sampleStep' # sampleStep)
            => (<<sampleStep, sampleStep'>> \in StepOrder
                \/ sampleStep' = "inject")]_vars
    /\ [][(SampleRecorded \/ issued' # issued)
            => /\ SampleRecorded
               /\ staticMode /\ sampleStep = "settle" /\ sampleStep' = "flush"
               /\ issued' = Append(issued, events'[Len(events')].sample_id)]_vars
    /\ [][(dialog = "label" /\ dialog' = "none" /\ ~SampleRecorded)
            => /\ sampleStep = "settle" /\ sampleStep' = "settle"
               /\ events' = events /\ sampleCounter' = sampleCounter]_vars
    /\ [](\A i \in 1..Len(issued) : issued[i] = i)

\* Two samples were recorded, one of them after a clear, and the workflow is
\* at flush.
C39_Witness ==
    /\ issued = <<1, 2>> /\ sampleStep = "flush" /\ Len(events) = 1

\* The r-squared denominator of the physical-flux calculation, ss_tot, is
\* zero: n * sum(y^2) - sum(y)^2 = 0.
SsTotZero(co2_ppm) ==
    Len(co2_ppm) * Sum(Products(co2_ppm, co2_ppm)) - Sum(co2_ppm) * Sum(co2_ppm) = 0

\* C31: when the r-squared denominator is zero, in particular when all the
\* concentrations given are equal, the result of the physical-flux
\* calculation has r-squared 0, never 1.
C31_ZeroDenominatorGivesZero ==
    (physResult.state = "result" /\ SsTotZero(physCo2))
      => physResult.r_squared = Zero

\* C31: the physical-flux calculation has returned a result with r-squared 1
\* for three or more equal concentrations at times that differ.
C31_Witness ==
    /\ physResult.state = "result"
    /\ \A i \in 1..Len(physCo2) : physCo2[i] = physCo2[1]
    /\ physResult.r_squared = One

\* C31, for the sliding window: calculate on a window of two or more points
\* whose r-squared denominator is zero (all times equal, or all
\* concentrations equal) returns r-squared 0.
C31_WindowZeroDenominator ==
    [][(UNCHANGED <<flux, points>> /\ Len(flux.times) >= 2
        /\ (\/ \A i \in 1..Len(flux.times) : flux.times[i] = flux.times[1]
            \/ \A i \in 1..Len(flux.co2) : flux.co2[i] = flux.co2[1]))
         => result'.r_squared = Zero]_vars

\* The rows insert_reading writes for the Readings of a session, in the order
\* of their ids.
RowsOf(readings) == [i \in 1..Len(readings) |-> InsertReading(readings[i])]

\* The chart of a screen that restores the session of these Readings.
RestoredFrom(readings) ==
    Restored(NewChart, Replay(SortedByKey(RowsOf(readings)), EmptyDict, 1))

\* The display axis replot rebuilds for a plot's time-axis buffer.
AxisOf(c, p) == Accumulated(TRUE, Seconds(c.plot_dt[p]))

\* Two charts hold the same plots, with the same channel buffers, time-axis
\* buffers and rebuilt display axes.
SameBuffers(live, restored) ==
    /\ DOMAIN live.plot_data = DOMAIN restored.plot_data
    /\ \A p \in DOMAIN live.plot_data :
         /\ live.plot_data[p] = restored.plot_data[p]
         /\ live.plot_dt[p] = restored.plot_dt[p]
         /\ AxisOf(live, p) = AxisOf(restored, p)

\* C35: a chart that restores the session of the Readings a live chart was
\* given (all of them persisted, none cleared, no add_data ended by an
\* exception) holds, for every plot, the same channel buffers and the same
\* rebuilt display axis, cycle resets included, as the live chart.
C35_RoundTrip ==
    (clearedAt = -1 /\ ~chart.raised) => SameBuffers(chart, RestoredFrom(added))

\* C35: a live chart was given two Readings of one plot, the second at a
\* smaller elapsed time than the first (a cycle reset), and the restored chart
\* holds that plot's buffers in another order.
C35_Witness ==
    /\ clearedAt = -1 /\ ~chart.raised /\ Len(added) = 2
    /\ PlotOf(added[1]) = PlotOf(added[2])
    /\ Has(added[1], "dt") /\ Has(added[2], "dt")
    /\ added[2]["dt"].num < added[1]["dt"].num
    /\ RestoredFrom(added).plot_dt[PlotOf(added[1])]
         # chart.plot_dt[PlotOf(added[1])]

====
